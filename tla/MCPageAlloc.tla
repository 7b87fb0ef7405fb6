----------------------------- MODULE MCPageAlloc -----------------------------
(***************************************************************************)
(* Instances of PageAlloc for TLC: memory maps, callers and the bounds.    *)
(***************************************************************************)
EXTENDS PageAlloc, TLC

(* Two runs of usable frames with three reserved frames between them; the  *)
(* struct pages 12 and 13 share a mapped page of the array with described  *)
(* ones but belong to a hole of the memory map.                            *)
TwoRuns        == 0 .. 4 \cup 8 .. 10
TwoRunsMap     == 0 .. 11
TwoRunsMapped  == 0 .. 13

(* The struct pages around one run.                                        *)
OneRunMapped == 0 .. 7

(* A single reserved frame between two runs.                               *)
NarrowGap    == {0, 2, 3}
NarrowGapMap == 0 .. 3

(* A run that ends where a hole of the map begins.                         *)
Cliff       == 0 .. 2
CliffMapped == 0 .. 3

(* A short run. *)
SmallRun       == 1 .. 3
SmallRunMapped == 1 .. 3
FourFrames     == 1 .. 4

(* Two blocks of the top order. *)
TwoHalves == 0 .. 7

All == Orders
Top == {TopOrder}
None == {}

=============================================================================
