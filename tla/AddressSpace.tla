---------------------------- MODULE AddressSpace ----------------------------
(***************************************************************************)
(* What a page table promises: a function from virtual pages to page       *)
(* frames, which changes at one page at a time.  `None' is the page that   *)
(* is not mapped.                                                          *)
(***************************************************************************)
CONSTANTS Vas,   \* virtual pages
          Pas,   \* page frames
          None

VARIABLE space

Init == space = [va \in Vas |-> None]

Map(va, pa) == space' = [space EXCEPT ![va] = pa]

Next == \E va \in Vas, pa \in Pas : Map(va, pa)

Spec == Init /\ [][Next]_space
=============================================================================
