------------------------------ MODULE MCMmInit ------------------------------
(***************************************************************************)
(* Memory maps for MmInit.  A page has two units.  Low memory, a reserved  *)
(* hole, the area with the kernel, perhaps a hole that no entry describes, *)
(* perhaps reserved memory, and two more areas.                            *)
(***************************************************************************)
EXTENDS MmInit, TLC

Pages(first, last, ok) ==      \* the pages first .. last - 1
  [addr |-> 2 * first, len |-> 2 * (last - first), available |-> ok]

Machine(end, gap, reserved, second, third) ==
  LET a == end + gap
      b == a + reserved
      c == b + second
  IN  SelectSeq(<<Pages(0, 1, TRUE), Pages(1, 2, FALSE), Pages(2, end, TRUE),
                  Pages(a, b, FALSE), Pages(b, c, TRUE),
                  Pages(c + gap, c + gap + third, TRUE)>>,
                LAMBDA e : e.len > 0)

(* The linear allocator stays in the kernel's area, or goes on to the next  *)
(* one or two, while it maps or while it makes struct pages.                *)
Machines == {Machine(end, gap, reserved, second, third) :
               end \in {6, 10, 14, 24}, gap \in {0, 1, 5}, reserved \in {0, 2},
               second \in {3, 20}, third \in {2, 5}}

ASSUME MachinesAssumption ==
  Maps = Machines => StartsAligned /\ AreasWhole /\ Sorted /\ KernelInside /\ TablesNear

(* The tags of a loader: text of any length, the memory map, an end, or no  *)
(* memory map.                                                              *)
Tag(t, n) == [type |-> t, size |-> n]
Loaders == {<<Tag(1, n), Tag(4, 16), Tag(6, 0), Tag(0, 8)>> : n \in {9, 16}}
             \cup {<<Tag(2, 13), Tag(0, 8)>>}

ASSUME LoadersAssumption == Tags = Loaders => TagsEnd

(* One large area, as with less than three gigabytes.                       *)
OneArea == {Machine(end, 0, 0, 0, 0) : end \in 20 .. 21}

(* About as many pages as are needed.                                       *)
JustEnough == {Machine(end, 0, 0, 0, 0) : end \in 10 .. 16}

(* The kernel's area ends in the middle of a page.                          *)
Ragged == {<<Pages(0, 2, TRUE), [Pages(2, end, TRUE) EXCEPT !.len = @ + 1],
             Pages(end + 1, end + 20, TRUE)>> : end \in 5 .. 8}

(* The area behind the kernel's does.                                       *)
Torn == {<<Pages(0, 2, TRUE), Pages(2, end, TRUE),
           [Pages(end, end + 3, TRUE) EXCEPT !.len = @ - 1]>> : end \in 20 .. 22}
=============================================================================
