------------------------------ MODULE PageAlloc ------------------------------
(***************************************************************************)
(* The buddy allocator of code/mm/page_alloc.c, with the loop of           *)
(* code/mm/mm_init.c that fills it when the machine boots.                 *)
(*                                                                         *)
(* A struct page is named by its index in the page array, so that          *)
(* next_page_by_order and prev_page_by_order are additions.  Each          *)
(* freelist[k] is the sequence of the pages on the circular list           *)
(* freelist[k] (module ListSeq).  Every iteration of a loop of the code is *)
(* a step, and several CPUs may call the allocator: they exclude each      *)
(* other with freelist_lock and with nothing else.                         *)
(***************************************************************************)
EXTENDS Integers, Sequences, ListSeq

CONSTANTS
  MaxPageOrder,  \* MAX_PAGE_ORDER: there are lists for orders below it
  Frames,        \* available frames at or above mm_alloc_end
  Described,     \* frames some multiboot memory map entry covers
  Mapped,        \* frames whose struct page lies in a mapped page of the array
  UninitBits,    \* the values a flag nobody has initialised may hold
  Cpus,          \* callers that may run at the same time
  BootCpu,       \* the one that runs mm_init
  Returnable,    \* the orders whose blocks callers give back with free_pages
  MaxRefCount    \* bound: a page that reached it is not given back any more

Orders == 0 .. (MaxPageOrder - 1)
TopOrder == MaxPageOrder - 1
LOCK_FREE == 0
LOCK_USED == 1
NULL == -1                    \* no struct page has this index

ASSUME OrderAssumption == MaxPageOrder \in Nat \ {0}
ASSUME FrameAssumption == /\ Frames \subseteq Described
                          /\ Described \subseteq Mapped
                          /\ Mapped \subseteq Nat
ASSUME CpuAssumption == BootCpu \in Cpus
ASSUME BitAssumption == UninitBits \subseteq BOOLEAN
ASSUME RefAssumption == MaxRefCount \in Int

(* The arithmetic of 1 << order that the proofs use. *)
ASSUME PowerAssumption ==
  /\ 2^0 = 1
  /\ \A k \in Orders : 2^k \in Nat \ {0} /\ 2^(k+1) = 2 * 2^k
  /\ \A j, k \in Orders : j < k => 2^j < 2^k

VARIABLES
  freelist_lock, \* the word of the spin lock
  freelist,      \* the free lists, one for each order
  is_free,       \* struct page: is_free
  is_head,       \* struct page: is_head
  ref_count,     \* struct page: ref_count
  pc,            \* where each CPU is
  p,             \* its local p
  order,         \* its parameter order (a variable in __free_pages)
  __alloc,       \* its local __alloc
  frontier,      \* mm_init has visited every frame below it
  booted,        \* mm_init has returned
  held           \* history: the blocks in the hands of callers

locals == <<pc, p, order, __alloc>>
pages  == <<is_free, is_head, ref_count>>
stage  == <<frontier, booted>>
vars   == <<freelist_lock, freelist, is_free, is_head, ref_count,
            pc, p, order, __alloc, frontier, booted, held>>

-----------------------------------------------------------------------------
(* Helpers of the code.  A slip is a definition as it would be with a       *)
(* plausible mistake in the code: Spec does not use it, and exchanged for   *)
(* the definition after it, it breaks a property.                           *)

next_page_by_order(q, k) == IF k >= MaxPageOrder THEN NULL ELSE q + 2^k

(* The slip of prev_page_by_order: the wrong neighbour.                     *)
page_after(q, k) == q + 2^k

prev_page_by_order(q, k) == IF k >= MaxPageOrder THEN NULL ELSE q - 2^k

(* The slip of FreeHead: is_free is not looked at.                          *)
HeadOnly(q) == q \in Mapped /\ is_head[q]

(* mm_pgtable_get_va_pte(kern_pgtable, q) != -1 && q->is_free && q->is_head *)
FreeHead(q) == q \in Mapped /\ is_free[q] /\ is_head[q]

(* The frames boot has handed over so far.                                  *)
Donated == {f \in Frames : f < frontier}

B == INSTANCE BlockStore WITH donated <- Donated
Span(b) == B!Span(b)
Apart(b1, b2) == B!Apart(b1, b2)

-----------------------------------------------------------------------------
Init ==
  /\ freelist_lock = LOCK_FREE
  /\ freelist = [k \in Orders |-> list_head_init]
  /\ is_free \in {g \in [Mapped -> {FALSE} \cup UninitBits] :
                     \A q \in Described : ~g[q]}
  /\ is_head \in [Mapped -> UninitBits]
  /\ ref_count = [q \in Mapped |-> 0]
  /\ pc = [c \in Cpus |-> "idle"]
  /\ p = [c \in Cpus |-> NULL]
  /\ order = [c \in Cpus |-> 0]
  /\ __alloc = [c \in Cpus |-> 0]
  /\ frontier = 0
  /\ booted = FALSE
  /\ held = {}

(* lock.h; the slip: no waiting.                                            *)
spin_rush   == freelist_lock' = LOCK_USED
spin_lock   == freelist_lock = LOCK_FREE /\ freelist_lock' = LOCK_USED
spin_unlock == freelist_lock = LOCK_USED /\ freelist_lock' = LOCK_FREE

Goto(c, from, to) == pc[c] = from /\ pc' = [pc EXCEPT ![c] = to]

(* The CPU returns to its caller: its locals are dead.                      *)
Return(c, from) == /\ Goto(c, from, "idle")
                   /\ p' = [p EXCEPT ![c] = NULL]
                   /\ order' = [order EXCEPT ![c] = 0]
                   /\ __alloc' = [__alloc EXCEPT ![c] = 0]

(* The neighbours that __free_pages looks at.                               *)
next(c) == next_page_by_order(p[c], order[c])
prev(c) == prev_page_by_order(p[c], order[c])

(* The loop runs while order < MAX_PAGE_ORDER - 1.                          *)
Combining(c) == /\ pc[c] = "free_combine"
                /\ p[c] # NULL
                /\ order[c] < TopOrder

-----------------------------------------------------------------------------
(* The slips of the actions.                                                *)

(* The search begins one order too low.                                     *)
AllocLockLow(c) ==
  /\ spin_lock
  /\ Goto(c, "alloc_lock", "alloc_scan")
  /\ __alloc' = [__alloc EXCEPT ![c] = order[c] - 1]
  /\ UNCHANGED <<freelist, pages, p, order, stage, held>>

(* The search does not advance.                                             *)
AllocSkipStuck(c) ==
  /\ pc[c] = "alloc_scan"
  /\ __alloc[c] < MaxPageOrder
  /\ list_empty(freelist[__alloc[c]])
  /\ UNCHANGED vars

(* The search ends before the last list.                                    *)
AllocFailEarly(c) ==
  /\ __alloc[c] >= TopOrder
  /\ Goto(c, "alloc_scan", "alloc_unlock")
  /\ UNCHANGED <<freelist_lock, freelist, pages, p, order, __alloc, stage,
                 held>>

(* An early return that forgets the lock.                                   *)
FreeRejectLocked(c) ==
  /\ p[c] = NULL \/ order[c] >= MaxPageOrder
  /\ Return(c, "free_combine")
  /\ UNCHANGED <<freelist_lock, freelist, pages, stage, held>>

(* The block behind p is absorbed and remains a head.                       *)
CombineNextHead(c) ==
  /\ Combining(c)
  /\ FreeHead(next(c))
  /\ freelist' = [k \in Orders |-> list_del(freelist[k], next(c))]
  /\ order' = [order EXCEPT ![c] = @ + 1]
  /\ UNCHANGED <<freelist_lock, pages, pc, p, __alloc, stage, held>>

(* p is absorbed and remains a head.                                        *)
CombinePrevHead(c) ==
  /\ Combining(c)
  /\ ~FreeHead(next(c))
  /\ FreeHead(prev(c))
  /\ freelist' = [k \in Orders |-> list_del(freelist[k], prev(c))]
  /\ is_free' = [is_free EXCEPT ![p[c]] = TRUE]
  /\ order' = [order EXCEPT ![c] = @ + 1]
  /\ p' = [p EXCEPT ![c] = prev(c)]
  /\ UNCHANGED <<freelist_lock, is_head, ref_count, pc, __alloc, stage, held>>

-----------------------------------------------------------------------------
(* Calls.                                                                   *)

(* The last loop of mm_pages_allocator_init: free_pages(p, 0) for each      *)
(* frame, in increasing order.                                              *)
BootFree(f) ==
  /\ ~booted
  /\ f >= frontier
  /\ \A g \in Frames : g >= frontier => f <= g
  /\ frontier' = f + 1
  /\ Goto(BootCpu, "idle", "free_lock")
  /\ p' = [p EXCEPT ![BootCpu] = f]
  /\ order' = [order EXCEPT ![BootCpu] = 0]
  /\ UNCHANGED <<freelist_lock, freelist, pages, __alloc, booted, held>>

(* Every frame has been visited: mm_init returns, the kernel may allocate.  *)
BootEnd ==
  /\ ~booted
  /\ \A f \in Frames : f < frontier
  /\ pc[BootCpu] = "idle"
  /\ booted' = TRUE
  /\ UNCHANGED <<freelist_lock, freelist, pages, locals, frontier, held>>

(* alloc_pages(k); mm_phys_alloc may compute an order that is too large.    *)
AllocCall(c, k) ==
  /\ booted
  /\ Goto(c, "idle", "alloc_lock")
  /\ order' = [order EXCEPT ![c] = k]
  /\ UNCHANGED <<freelist_lock, freelist, pages, p, __alloc, stage, held>>

(* free_pages(b[1], b[2]) for a block the caller got from alloc_pages.      *)
FreeCall(c, b) ==
  /\ booted
  /\ b \in held
  /\ b[2] \in Returnable
  /\ \A q \in Span(b) : ref_count[q] < MaxRefCount
  /\ Goto(c, "idle", "free_lock")
  /\ p' = [p EXCEPT ![c] = b[1]]
  /\ order' = [order EXCEPT ![c] = b[2]]
  /\ held' = held \ {b}
  /\ UNCHANGED <<freelist_lock, freelist, pages, __alloc, stage>>

(* free_pages(NULL, k), after an allocation that failed.                    *)
FreeNullCall(c, k) ==
  /\ booted
  /\ Goto(c, "idle", "free_lock")
  /\ order' = [order EXCEPT ![c] = k]
  /\ UNCHANGED <<freelist_lock, freelist, pages, p, __alloc, stage, held>>

-----------------------------------------------------------------------------
(* alloc_pages.                                                             *)

AllocLock(c) ==
  /\ spin_lock
  /\ Goto(c, "alloc_lock", "alloc_scan")
  /\ __alloc' = [__alloc EXCEPT ![c] = order[c]]
  /\ UNCHANGED <<freelist, pages, p, order, stage, held>>

(* __alloc_page_direct: the list is empty, look one order higher.           *)
AllocSkip(c) ==
  /\ pc[c] = "alloc_scan"
  /\ __alloc[c] < MaxPageOrder
  /\ list_empty(freelist[__alloc[c]])
  /\ __alloc' = [__alloc EXCEPT ![c] = @ + 1]
  /\ UNCHANGED <<freelist_lock, freelist, pages, pc, p, order, stage, held>>

(* The list has a page: take the first one.                                 *)
AllocTake(c) ==
  LET k == __alloc[c] IN
  /\ k < MaxPageOrder
  /\ ~list_empty(freelist[k])
  /\ Goto(c, "alloc_scan", "alloc_split")
  /\ p' = [p EXCEPT ![c] = Head(freelist[k])]
  /\ freelist' = [freelist EXCEPT ![k] = list_del(@, Head(freelist[k]))]
  /\ UNCHANGED <<freelist_lock, pages, order, __alloc, stage, held>>

(* No list is left, or the order was too large from the start: NULL.        *)
AllocFail(c) ==
  /\ __alloc[c] >= MaxPageOrder
  /\ Goto(c, "alloc_scan", "alloc_unlock")
  /\ UNCHANGED <<freelist_lock, freelist, pages, p, order, __alloc, stage,
                 held>>

(* "put half pages back to buddy": the upper half goes to the list of the   *)
(* order below.  Its flags are left as they are.                            *)
AllocSplit(c) ==
  LET k == __alloc[c] - 1 IN
  /\ pc[c] = "alloc_split"
  /\ __alloc[c] > order[c]
  /\ freelist' = [freelist EXCEPT
                    ![k] = list_add_next(@, next_page_by_order(p[c], k))]
  /\ __alloc' = [__alloc EXCEPT ![c] = k]
  /\ UNCHANGED <<freelist_lock, pages, pc, p, order, stage, held>>

(* __alloc_pages: every page of the block is counted and marked not free.   *)
AllocMark(c) ==
  LET block == Span(<<p[c], order[c]>>) IN
  /\ __alloc[c] = order[c]
  /\ Goto(c, "alloc_split", "alloc_unlock")
  /\ ref_count' = [q \in Mapped |->
                     IF q \in block THEN ref_count[q] + 1 ELSE ref_count[q]]
  /\ is_free' = [q \in Mapped |-> q \notin block /\ is_free[q]]
  /\ UNCHANGED <<freelist_lock, freelist, is_head, p, order, __alloc, stage,
                 held>>

AllocUnlock(c) ==
  /\ spin_unlock
  /\ held' = IF p[c] = NULL THEN held ELSE held \cup {<<p[c], order[c]>>}
  /\ Return(c, "alloc_unlock")
  /\ UNCHANGED <<freelist, pages, stage>>

-----------------------------------------------------------------------------
(* free_pages.                                                              *)

FreeLock(c) ==
  /\ spin_lock
  /\ Goto(c, "free_lock", "free_combine")
  /\ UNCHANGED <<freelist, pages, p, order, __alloc, stage, held>>

(* __free_pages: the early returns.                                         *)
FreeReject(c) ==
  /\ p[c] = NULL \/ order[c] >= MaxPageOrder
  /\ Goto(c, "free_combine", "free_unlock")
  /\ UNCHANGED <<freelist_lock, freelist, pages, p, order, __alloc, stage,
                 held>>

(* The block behind p is free: it is absorbed.                              *)
CombineNext(c) ==
  /\ Combining(c)
  /\ FreeHead(next(c))
  /\ freelist' = [k \in Orders |-> list_del(freelist[k], next(c))]
  /\ is_head' = [is_head EXCEPT ![next(c)] = FALSE]
  /\ order' = [order EXCEPT ![c] = @ + 1]
  /\ UNCHANGED <<freelist_lock, is_free, ref_count, pc, p, __alloc, stage,
                 held>>

(* The block before p is free: it absorbs p and becomes the block in hand.  *)
CombinePrev(c) ==
  /\ Combining(c)
  /\ ~FreeHead(next(c))
  /\ FreeHead(prev(c))
  /\ freelist' = [k \in Orders |-> list_del(freelist[k], prev(c))]
  /\ is_head' = [is_head EXCEPT ![p[c]] = FALSE]
  /\ is_free' = [is_free EXCEPT ![p[c]] = TRUE]
  /\ order' = [order EXCEPT ![c] = @ + 1]
  /\ p' = [p EXCEPT ![c] = prev(c)]
  /\ UNCHANGED <<freelist_lock, ref_count, pc, __alloc, stage, held>>

(* Nothing left to combine: the block goes to the list of its order.        *)
FreeInsert(c) ==
  /\ p[c] # NULL /\ order[c] < MaxPageOrder
  /\ order[c] < TopOrder => ~FreeHead(next(c)) /\ ~FreeHead(prev(c))
  /\ Goto(c, "free_combine", "free_unlock")
  /\ freelist' = [freelist EXCEPT ![order[c]] = list_add_next(@, p[c])]
  /\ ref_count' = [ref_count EXCEPT ![p[c]] = -1]
  /\ is_free' = [is_free EXCEPT ![p[c]] = TRUE]
  /\ is_head' = [is_head EXCEPT ![p[c]] = TRUE]
  /\ UNCHANGED <<freelist_lock, p, order, __alloc, stage, held>>

FreeUnlock(c) ==
  /\ spin_unlock
  /\ Return(c, "free_unlock")
  /\ UNCHANGED <<freelist, pages, stage, held>>

-----------------------------------------------------------------------------
(* What a CPU does once it has called, and what it may call.                *)
Work(c) ==
  \/ AllocLock(c) \/ AllocSkip(c) \/ AllocTake(c) \/ AllocFail(c)
  \/ AllocSplit(c) \/ AllocMark(c) \/ AllocUnlock(c)
  \/ FreeLock(c) \/ FreeReject(c) \/ CombineNext(c) \/ CombinePrev(c)
  \/ FreeInsert(c) \/ FreeUnlock(c)

Call(c) ==
  \/ \E k \in 0 .. MaxPageOrder : AllocCall(c, k) \/ FreeNullCall(c, k)
  \/ \E b \in held : FreeCall(c, b)

Boot == BootEnd \/ \E f \in Frames : BootFree(f)

Next == \/ Boot
        \/ \E c \in Cpus : Work(c) \/ Call(c)

(* Code that has started runs on; nobody has to call the allocator.         *)
Fairness == /\ WF_vars(Boot)
            /\ \A c \in Cpus : WF_vars(Work(c))

Spec == Init /\ [][Next]_vars /\ Fairness
-----------------------------------------------------------------------------
(* Properties.                                                              *)

(* The program counters at which a CPU has the lock.                        *)
Critical == {"alloc_scan", "alloc_split", "alloc_unlock",
             "free_combine", "free_unlock"}
Waiting  == {"alloc_lock", "free_lock"}

FreeBlocks == UNION {{<<q, k>> : q \in ToSet(freelist[k])} : k \in Orders}

(* The block a CPU has in hand: on no list, and in no caller's hands.       *)
Allocating(c) == pc[c] \in {"alloc_split", "alloc_unlock"} /\ p[c] # NULL
Freeing(c)    == /\ pc[c] \in {"free_lock", "free_combine"}
                 /\ p[c] # NULL
                 /\ order[c] < MaxPageOrder
InHand(c) == Allocating(c) \/ Freeing(c)
Hand(c)   == <<p[c], IF Allocating(c) THEN __alloc[c] ELSE order[c]>>

(* Who says of which block that it is his.                                  *)
Claims == {<<"list", 0, b>> : b \in FreeBlocks}
            \cup {<<"caller", 0, b>> : b \in held}
            \cup {<<"cpu", c, Hand(c)>> : c \in {d \in Cpus : InHand(d)}}

(* Every variable has its type.                                             *)
TypeOK ==
  /\ freelist_lock \in {LOCK_FREE, LOCK_USED}
  /\ freelist \in [Orders -> Seq(Nat)]
  /\ is_free \in [Mapped -> BOOLEAN]
  /\ is_head \in [Mapped -> BOOLEAN]
  /\ ref_count \in [Mapped -> Int]
  /\ pc \in [Cpus -> {"idle"} \cup Waiting \cup Critical]
  /\ p \in [Cpus -> Nat \cup {NULL}]
  /\ order \in [Cpus -> 0 .. MaxPageOrder]
  /\ __alloc \in [Cpus -> 0 .. MaxPageOrder]
  /\ frontier \in Nat
  /\ booted \in BOOLEAN
  /\ held \subseteq Nat \X Orders

(* The spin lock excludes: the lists are touched by one CPU at a time, and  *)
(* the lock is taken exactly while there is one (alloc_pages, free_pages).  *)
LockExcludes ==
  /\ \A c, d \in Cpus :
        c # d => ~(pc[c] \in Critical /\ pc[d] \in Critical)
  /\ freelist_lock = LOCK_USED <=> \E c \in Cpus : pc[c] \in Critical

(* No frame is in two places: on a list twice, on a list and with a caller, *)
(* with two callers, or in the hands of two CPUs (alloc_pages after any     *)
(* history of splits and merges).                                           *)
NoOverlap ==
  /\ \A k \in Orders : IsInjective(freelist[k])
  /\ \A x, y \in Claims : x # y => Apart(x[3], y[3])

(* The allocator never takes in a frame the firmware did not report as      *)
(* usable, nor one it has not been given yet (mm_init.c's loop and the      *)
(* merging of __free_pages).                                                *)
OnlyAvailable == \A x \in Claims : Span(x[3]) \subseteq Donated

(* Splitting and merging lose nothing: every frame handed over at boot is   *)
(* on a list, with a caller, or in the hands of a CPU inside the allocator. *)
NoLeak == \A f \in Donated : \E x \in Claims : f \in Span(x[3])

(* Merging is complete: when __free_pages is done no free block has a free  *)
(* neighbour of its own size that it could have been combined with.         *)
CombinedFully ==
  \A c \in Cpus : pc[c] = "free_unlock" =>
    \A b1, b2 \in FreeBlocks :
      b1[2] = b2[2] /\ b1[2] < TopOrder => b1[1] + 2^b1[2] # b2[1]

(* alloc_pages returns NULL only when no list of the order asked for or of  *)
(* a higher one has a block.                                                *)
NullOnlyWhenEmpty ==
  \A c \in Cpus : pc[c] = "alloc_unlock" /\ p[c] = NULL =>
    \A k \in Orders : k >= order[c] => list_empty(freelist[k])

(* Boot leaves each run of frames cut into blocks of falling size (largest  *)
(* blocks first): that is why merging with the previous block is exact.     *)
Staircase ==
  ~booted => \A b1, b2 \in FreeBlocks :
               b1[1] < b2[1] /\ b1[1] .. b2[1] \subseteq Frames =>
                 b1[2] > b2[2] \/ b1[2] = TopOrder

(* As long as nothing has been split the flags of a page say whether it is  *)
(* the head of a free block (the one in hand apart): what __free_pages      *)
(* reads of a neighbour is then the truth.                                  *)
FlagsTell ==
  ~booted => \A q \in Described :
               LET listed == \E k \in Orders : <<q, k>> \in FreeBlocks IN
               /\ listed => FreeHead(q)
               /\ FreeHead(q) => listed \/ q = p[BootCpu]

(* What a merge takes off a list is on one, after any history of splits and *)
(* merges, whatever blocks callers give back: a page that is free and a     *)
(* head is on a list, or it is the block that a CPU is just splitting or    *)
(* merging.  The merges of __free_pages trust these two flags and nothing   *)
(* else.                                                                    *)
HeadsListed ==
  \A q \in Described : FreeHead(q) =>
    \/ \E k \in Orders : q \in ToSet(freelist[k])
    \/ \E c \in Cpus : pc[c] \in {"alloc_split", "free_combine"} /\ p[c] = q

(* A CPU that has the lock gives it back: every loop under it ends.         *)
LockReleased == \A c \in Cpus : pc[c] \in Critical ~> pc[c] = "idle"

(* Somebody who waits for the lock gets it, though not necessarily the one  *)
(* who waited longest.                                                      *)
SomebodyGetsIn == (\E c \in Cpus : pc[c] \in Waiting)
                    ~> (\E c \in Cpus : pc[c] \in Critical)

(* The allocator implements the store.                                      *)
ImplementsStore == B!Spec

(* The frames a CPU inspects while combining have been initialised.         *)
ReadsInitialised ==
  \A c \in Cpus : Combining(c) =>
    /\ next(c) \in Mapped => next(c) \in Described
    /\ ~FreeHead(next(c)) /\ prev(c) \in Mapped => prev(c) \in Described

(* What the locals of a CPU are worth at each point of alloc_pages: the     *)
(* part of the induction that is about one call.                            *)
CallInv ==
  \A c \in Cpus :
    /\ pc[c] \in {"idle", "alloc_lock", "alloc_scan"} => p[c] = NULL
    /\ pc[c] = "alloc_scan" =>
         /\ order[c] <= __alloc[c]
         /\ \A k \in Orders : order[c] <= k /\ k < __alloc[c]
                               => list_empty(freelist[k])
    /\ pc[c] = "alloc_split" => /\ p[c] # NULL
                                /\ order[c] <= __alloc[c]
                                /\ __alloc[c] \in Orders
    /\ pc[c] = "alloc_unlock" /\ p[c] # NULL => /\ __alloc[c] = order[c]
                                                /\ order[c] \in Orders

(* Callers give back only what they may.                                    *)
GivenBack == \A c \in Cpus : booted /\ Freeing(c) => order[c] \in Returnable

(* While the machine boots only mm_init calls the allocator, the block in   *)
(* hand ends at the frontier, and every free block of the run before it is  *)
(* at least as large as it is.                                              *)
BootInv ==
  ~booted =>
    /\ held = {}
    /\ \A c \in Cpus \ {BootCpu} : pc[c] = "idle"
    /\ LET c == BootCpu IN
       /\ pc[c] \in {"idle", "free_lock", "free_combine", "free_unlock"}
       /\ pc[c] \in {"free_lock", "free_combine"} =>
            /\ Freeing(c)
            /\ p[c] + 2^order[c] = frontier
            /\ \A b \in FreeBlocks :
                 b[1] < p[c] /\ b[1] .. p[c] \subseteq Frames
                   => b[2] >= order[c]
       /\ pc[c] = "free_unlock" => <<p[c], order[c]>> \in FreeBlocks

-----------------------------------------------------------------------------
(* What the memory map must look like for boot to be right.                 *)

(* Two runs of frames are further apart than the largest step of the loop.  *)
WideGaps == \A f, g \in Frames : \A k \in Orders :
              k < TopOrder /\ g = f + 2^k => f .. g \subseteq Frames

(* No frame without an initialised struct page where the loop looks.        *)
NoGarbageNear ==
  \A f \in Frames :
    /\ f + 1 \in Mapped => f + 1 \in Described
    /\ \A k \in Orders : k < TopOrder /\ f - 2^k \in Mapped
                            => f - 2^k \in Described

(* What callers may give back: kmalloc and the boot loop give nothing back, *)
(* and blocks of the top order are never combined.                          *)
NoMergeAfterBoot == Returnable \subseteq {TopOrder}
=============================================================================
