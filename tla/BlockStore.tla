----------------------------- MODULE BlockStore -----------------------------
(***************************************************************************)
(* What the page allocator promises its callers: page frames are given to  *)
(* the store once, when the machine boots, and from then on every frame    *)
(* belongs either to the store or to exactly one block that some caller    *)
(* holds.  Nothing is said of lists, of locks or of which block a caller   *)
(* gets; PageAlloc shows how the kernel does it.                           *)
(*                                                                         *)
(* A block is a pair <<page, order>>: the 2^order frames from page on.     *)
(***************************************************************************)
EXTENDS Integers

CONSTANTS
  Frames,   \* the page frames the firmware reports as usable
  Orders    \* the sizes a caller may ask for, as powers of two

VARIABLES
  donated,  \* the frames the store has been given so far
  held      \* the blocks in the hands of callers

store == <<donated, held>>

Span(b) == b[1] .. (b[1] + 2^b[2] - 1)

(* Two blocks that have no frame in common. *)
Apart(b1, b2) == \/ b1[1] + 2^b1[2] <= b2[1]
                 \/ b2[1] + 2^b2[2] <= b1[1]

Init == /\ donated = {}
        /\ held = {}

(* Boot hands one more usable frame to the store. *)
Donate(f) == /\ f \in Frames \ donated
             /\ donated' = donated \cup {f}
             /\ UNCHANGED held

(* A caller receives a block made of frames no other caller holds. *)
Alloc(b) == /\ Span(b) \subseteq donated
            /\ \A h \in held : Apart(b, h)
            /\ held' = held \cup {b}
            /\ UNCHANGED donated

(* A caller gives a block back. *)
Free(b) == /\ b \in held
           /\ held' = held \ {b}
           /\ UNCHANGED donated

Next == \/ \E f \in Frames : Donate(f)
        \/ \E b \in Frames \X Orders : Alloc(b) \/ Free(b)

Spec == Init /\ [][Next]_store
=============================================================================
