-------------------------------- MODULE Slub --------------------------------
(***************************************************************************)
(* The object allocator of code/mm/slub.c.                                 *)
(*                                                                         *)
(* A kmem_cache hands out objects of one size.  It cuts a block of pages   *)
(* into objects and chains the free ones through their own first word, so  *)
(* the memory of objects is part of the state: callers write to what they  *)
(* have been given while other callers allocate.  Memory is counted in     *)
(* words, page frame f begins at word f * PAGE_SIZE.  Pages come from the  *)
(* page allocator as module BlockStore describes it.                       *)
(***************************************************************************)
EXTENDS Integers, Sequences

CONSTANTS
  PAGE_SHIFT,            \* a page has 2^PAGE_SHIFT words
  NR_KOBJECT_SIZE_TYPE,  \* the number of caches
  Frames,                \* the page frames alloc_pages may hand out
  MaxPageOrder,          \* MAX_PAGE_ORDER
  Cpus,                  \* callers that may run at the same time
  Requests               \* the sizes they ask for

ASSUME SizeAssumption == /\ PAGE_SHIFT \in Nat \ {0}
                         /\ NR_KOBJECT_SIZE_TYPE = PAGE_SHIFT + 2
                         /\ Frames \subseteq Nat
                         /\ Requests \subseteq Nat

L == INSTANCE ListSeq

PAGE_SIZE == 2^PAGE_SHIFT
KMALLOC_MAX_SHIFT == 1
KMALLOC_MAX_CACHE_SIZE == PAGE_SIZE * 2^KMALLOC_MAX_SHIFT
Caches == 0 .. (NR_KOBJECT_SIZE_TYPE - 1)
NULL == -1
Wild == -2      \* a word that is no pointer of the allocator's
LOCK_FREE == 0
LOCK_USED == 1

Words == UNION {(f * PAGE_SIZE) .. (f * PAGE_SIZE + PAGE_SIZE - 1) :
                  f \in Frames}

VARIABLES
  lock,          \* kmem_cache: lock
  freelist,      \* kmem_cache: the first free object of the current slub
  slub,          \* kmem_cache: the current slub
  full,          \* kmem_cache: the list of used up slubs
  partial,       \* kmem_cache: the list of partly used slubs
  page_freelist, \* struct page: freelist
  mem,           \* the words of the page frames
  pc, kc, obj, new_slub, va,   \* what a CPU is at, and its locals
  blocks,        \* history: what alloc_pages has handed out, to which cache
  given,         \* history: the objects kmalloc has handed out, by cache
  refused        \* history: sizes kmalloc turned down without a look

caches == <<lock, freelist, slub, full, partial>>
memory == <<page_freelist, mem>>
locals == <<pc, kc, obj, new_slub, va>>
past   == <<blocks, given, refused>>
vars   == <<caches, memory, locals, past>>

Orders == 0 .. (MaxPageOrder - 1)
Pages == INSTANCE BlockStore
           WITH donated <- Frames, held <- {x[2] : x \in blocks}

-----------------------------------------------------------------------------
(* kmem_cache_init: sizes double from one cache to the next.                *)
obj_size(k) == 2^k

(* The smallest cache whose objects are large enough; -1 if there is none.  *)
slub_index(sz) ==
  IF \E k \in Caches : sz <= obj_size(k)
  THEN CHOOSE k \in Caches : /\ sz <= obj_size(k)
                             /\ \A j \in Caches : j < k => obj_size(j) < sz
  ELSE -1

(* obj_size >> PAGE_SHIFT, both the order asked for and the shift that      *)
(* tells how much memory is cut up.                                         *)
slub_order(k) == obj_size(k) \div PAGE_SIZE

(* The slip: one object too few.                                            *)
alloc_size_low(k) == PAGE_SIZE * 2^slub_order(k) - obj_size(k)

alloc_size(k) == PAGE_SIZE * 2^slub_order(k)

(* The arithmetic of shifts that the proofs use: a slub is cut without      *)
(* remainder, has at most 2 * PAGE_SIZE objects, and alloc_pages serves its *)
(* order.                                                                   *)
ASSUME ShiftAssumption ==
  /\ PAGE_SIZE \in Nat \ {0}
  /\ \A k \in Caches :
       /\ obj_size(k) \in Nat \ {0}
       /\ slub_order(k) \in Orders
       /\ 2^slub_order(k) \in Nat \ {0}
       /\ (PAGE_SIZE * 2^slub_order(k)) % obj_size(k) = 0
       /\ PAGE_SIZE * 2^slub_order(k) <= 2 * PAGE_SIZE * obj_size(k)

page_to_virt(f) == f * PAGE_SIZE

Init ==
  /\ lock = [k \in Caches |-> LOCK_FREE]
  /\ freelist = [k \in Caches |-> NULL]
  /\ slub = [k \in Caches |-> NULL]
  /\ full = [k \in Caches |-> L!list_head_init]
  /\ partial = [k \in Caches |-> L!list_head_init]
  /\ page_freelist = [f \in Frames |-> NULL]
  /\ mem = [w \in Words |-> Wild]
  /\ pc = [c \in Cpus |-> "idle"]
  /\ kc = [c \in Cpus |-> 0]
  /\ obj = [c \in Cpus |-> NULL]
  /\ new_slub = [c \in Cpus |-> NULL]
  /\ va = [c \in Cpus |-> 0]
  /\ blocks = {} /\ given = {} /\ refused = {}

(* lock.h; a slip: no waiting.                                              *)
spin_rush(k) == lock' = [lock EXCEPT ![k] = LOCK_USED]
spin_lock(k) == /\ lock[k] = LOCK_FREE
                /\ lock' = [lock EXCEPT ![k] = LOCK_USED]
spin_unlock(k) == /\ lock[k] = LOCK_USED
                  /\ lock' = [lock EXCEPT ![k] = LOCK_FREE]

Goto(c, from, to) == pc[c] = from /\ pc' = [pc EXCEPT ![c] = to]

-----------------------------------------------------------------------------
(* kmalloc.                                                                 *)

(* Larger than every cache: __kmalloc_large returns NULL.                   *)
KmallocLarge(c, sz) ==
  /\ pc[c] = "idle"
  /\ sz > KMALLOC_MAX_CACHE_SIZE
  /\ refused' = refused \cup {sz}
  /\ UNCHANGED <<caches, memory, locals, blocks, given>>

(* __kmalloc: the cache for the size.                                       *)
Kmalloc(c, sz) ==
  /\ sz <= KMALLOC_MAX_CACHE_SIZE
  /\ slub_index(sz) >= 0
  /\ Goto(c, "idle", "lock")
  /\ kc' = [kc EXCEPT ![c] = slub_index(sz)]
  /\ UNCHANGED <<caches, memory, obj, new_slub, va, past>>

-----------------------------------------------------------------------------
(* kmem_cache_alloc.                                                        *)

Lock(c) ==
  /\ spin_lock(kc[c])
  /\ Goto(c, "lock", "redo")
  /\ UNCHANGED <<freelist, slub, full, partial, memory, kc, obj, new_slub, va,
                 past>>

(* "we have objects on the kmem_cache now, just allocate one": read the     *)
(* first one ...                                                            *)
Take(c) ==
  /\ freelist[kc[c]] # NULL
  /\ Goto(c, "redo", "pop")
  /\ obj' = [obj EXCEPT ![c] = freelist[kc[c]]]
  /\ UNCHANGED <<caches, memory, kc, new_slub, va, past>>

(* A slip: the chain stays where it is.                                     *)
PopNot(c) ==
  /\ Goto(c, "pop", "unlock")
  /\ UNCHANGED <<caches, memory, kc, obj, new_slub, va, past>>

(* ... and go on to the one it points to.                                   *)
Pop(c) ==
  LET k == kc[c] IN
  /\ Goto(c, "pop", "unlock")
  /\ freelist' = [freelist EXCEPT ![k] = mem[freelist[k]]]
  /\ UNCHANGED <<lock, slub, full, partial, memory, kc, obj, new_slub, va,
                 past>>

(* No object left: the slub goes to the full list; the next one comes from  *)
(* the partial list if that has one, otherwise from the page allocator.     *)
Refill(c) ==
  LET k == kc[c]
      p == Head(partial[k]) IN
  /\ pc[c] = "redo"
  /\ freelist[k] = NULL
  /\ full' = IF slub[k] = NULL THEN full
             ELSE [full EXCEPT ![k] = L!list_add_next(@, slub[k])]
  /\ IF L!list_empty(partial[k])
     THEN /\ slub' = [slub EXCEPT ![k] = NULL]
          /\ pc' = [pc EXCEPT ![c] = "grow"]
          /\ UNCHANGED <<freelist, partial>>
     ELSE /\ slub' = [slub EXCEPT ![k] = p]
          /\ freelist' = [freelist EXCEPT ![k] = page_freelist[p]]
          /\ partial' = [partial EXCEPT ![k] = L!list_del(@, p)]
          /\ UNCHANGED pc
  /\ UNCHANGED <<lock, memory, kc, obj, new_slub, va, past>>

(* slub_alloc: alloc_pages returns a block of the order asked for ...       *)
Grow(c, b) ==
  LET k == kc[c] IN
  /\ b[2] = slub_order(k)
  /\ Pages!Span(b) \subseteq Frames
  /\ \A x \in blocks : Pages!Apart(b, x[2])
  /\ blocks' = blocks \cup {<<k, b>>}
  /\ Goto(c, "grow", "trim")
  /\ new_slub' = [new_slub EXCEPT ![c] = b[1]]
  /\ page_freelist' = [page_freelist EXCEPT ![b[1]] = page_to_virt(b[1])]
  /\ va' = [va EXCEPT ![c] = obj_size(k)]
  /\ UNCHANGED <<caches, mem, kc, obj, given, refused>>

(* A slip: try again for ever.                                              *)
GrowFailRedo(c) ==
  /\ Goto(c, "grow", "redo")
  /\ UNCHANGED <<caches, memory, kc, obj, new_slub, va, past>>

(* ... or NULL, and so does kmem_cache_alloc.                               *)
GrowFail(c) ==
  /\ Goto(c, "grow", "unlock")
  /\ UNCHANGED <<caches, memory, kc, obj, new_slub, va, past>>

(* "trim pages into chunks": each object points to the one after it.        *)
Trim(c) ==
  LET k == kc[c]
      next_obj == page_to_virt(new_slub[c]) + va[c] IN
  /\ pc[c] = "trim"
  /\ va[c] < alloc_size(k)
  /\ mem' = [mem EXCEPT ![next_obj - obj_size(k)] = next_obj]
  /\ va' = [va EXCEPT ![c] = @ + obj_size(k)]
  /\ UNCHANGED <<caches, page_freelist, pc, kc, obj, new_slub, past>>

(* The last object points nowhere; the slub becomes the current one.        *)
TrimEnd(c) ==
  LET k == kc[c]
      next_obj == page_to_virt(new_slub[c]) + va[c] - obj_size(k) IN
  /\ va[c] >= alloc_size(k)
  /\ Goto(c, "trim", "redo")
  /\ mem' = [mem EXCEPT ![next_obj] = NULL]
  /\ slub' = [slub EXCEPT ![k] = new_slub[c]]
  /\ freelist' = [freelist EXCEPT ![k] = page_freelist[new_slub[c]]]
  /\ new_slub' = [new_slub EXCEPT ![c] = NULL]
  /\ va' = [va EXCEPT ![c] = 0]
  /\ UNCHANGED <<lock, full, partial, page_freelist, kc, obj, past>>

Unlock(c) ==
  LET k == kc[c]
      got == IF obj[c] = NULL THEN {} ELSE {<<k, obj[c]>>} IN
  /\ spin_unlock(k)
  /\ Goto(c, "unlock", "idle")
  /\ given' = given \cup got
  /\ obj' = [obj EXCEPT ![c] = NULL]
  /\ kc' = [kc EXCEPT ![c] = 0]
  /\ UNCHANGED <<freelist, slub, full, partial, memory, new_slub, va, blocks,
                 refused>>

-----------------------------------------------------------------------------
(* Callers.                                                                 *)

Extent(o) == o[2] .. (o[2] + obj_size(o[1]) - 1)

(* A caller fills its object, or does so no more after kfree, which does    *)
(* nothing.                                                                 *)
Fill(o) ==
  /\ mem' = [w \in Words |-> IF w \in Extent(o) THEN Wild ELSE mem[w]]
  /\ UNCHANGED <<caches, page_freelist, locals, past>>

Work(c) ==
  \/ Lock(c) \/ Take(c) \/ Pop(c) \/ Refill(c)
  \/ \E f \in Frames : Grow(c, <<f, slub_order(kc[c])>>)
  \/ GrowFail(c) \/ Trim(c) \/ TrimEnd(c) \/ Unlock(c)

Next ==
  \/ \E c \in Cpus : Work(c) \/ \E sz \in Requests :
                                    Kmalloc(c, sz) \/ KmallocLarge(c, sz)
  \/ \E o \in given : Fill(o)

Spec == Init /\ [][Next]_vars /\ \A c \in Cpus : WF_vars(Work(c))
-----------------------------------------------------------------------------
(* Properties.                                                              *)

Critical == {"redo", "pop", "grow", "trim", "unlock"}

(* The objects that have left the caches, or are about to.                  *)
InHand == {<<kc[c], obj[c]>> :
             c \in {d \in Cpus : pc[d] = "unlock" /\ obj[d] # NULL}}
Gone   == given \cup InHand

(* The objects of a block, as slub_alloc cuts them.                         *)
Cut(x) == {<<x[1], page_to_virt(x[2][1]) + i * obj_size(x[1])>> :
             i \in 0 .. ((PAGE_SIZE * 2^x[2][2]) \div obj_size(x[1]) - 1)}

(* The words one meets from kc->freelist on; no slub has more than          *)
(* 2 * PAGE_SIZE objects.                                                   *)
Chain(k) ==
  LET step(S) == S \cup {mem[w] : w \in S \cap Words}
      reach[n \in Nat] == IF n = 0 THEN {freelist[k]} ELSE step(reach[n - 1])
  IN  reach[2 * PAGE_SIZE] \ {NULL}

(* Every variable has its type.                                             *)
TypeOK ==
  /\ lock \in [Caches -> {LOCK_FREE, LOCK_USED}]
  /\ freelist \in [Caches -> Words \cup {NULL}]
  /\ slub \in [Caches -> Frames \cup {NULL}]
  /\ full \in [Caches -> Seq(Frames)] /\ partial \in [Caches -> Seq(Frames)]
  /\ page_freelist \in [Frames -> Words \cup {NULL}]
  /\ mem \in [Words -> Words \cup {NULL, Wild}]
  /\ pc \in [Cpus -> {"idle", "lock"} \cup Critical]
  /\ kc \in [Cpus -> Caches]
  /\ obj \in [Cpus -> Words \cup {NULL}]
  /\ new_slub \in [Cpus -> Frames \cup {NULL}]
  /\ va \in [Cpus -> Nat]
  /\ blocks \subseteq Caches \X (Frames \X Orders)
  /\ given \subseteq Caches \X Words
  /\ refused \subseteq Requests

(* No two objects kmalloc hands out share a word, be they of one cache or   *)
(* of two, given up or still used: nothing is handed out twice.  Each lies  *)
(* in a block that alloc_pages gave to its cache, before it is read.        *)
ObjectsApart ==
  /\ \A c \in Cpus : obj[c] # NULL => <<kc[c], obj[c]>> \notin given
  /\ \A c, d \in Cpus : c # d /\ obj[c] # NULL => obj[c] # obj[d]
  /\ \A o1, o2 \in Gone : o1 # o2 => Extent(o1) \cap Extent(o2) = {}
  /\ \A o \in given \cup {<<kc[c], obj[c]>> : c \in {d \in Cpus : obj[d] # NULL}} :
       \E x \in blocks :
         x[1] = o[1] /\ \A w \in Extent(o) : w \div PAGE_SIZE \in Pages!Span(x[2])

(* What callers write never gets between the allocator and its chain: the   *)
(* chain of a cache runs through objects that nobody has, to its end.       *)
ChainSafe ==
  \A k \in Caches :
    /\ Wild \notin Chain(k)
    /\ \A w \in Chain(k) : <<k, w>> \notin Gone

(* Cutting and refilling lose no object: each one of a block that has been  *)
(* cut is on the chain of its cache or has been handed out.                 *)
NoObjectLost ==
  \A x \in blocks :
    x[2][1] \notin {new_slub[c] : c \in Cpus} =>
      \A o \in Cut(x) : o \in Gone \/ o[2] \in Chain(x[1])

(* kmalloc returns, whatever other CPUs and callers do, once it has the     *)
(* lock of its cache: the redo loop ends.                                   *)
KmallocReturns == \A c \in Cpus : pc[c] = "redo" ~> pc[c] = "idle"

(* slub.h: "we can only allocate max 8 pages from slub at a time": what is  *)
(* turned down is larger than that.                                         *)
ServesEightPages == \A sz \in refused : sz > 8 * PAGE_SIZE
=============================================================================
