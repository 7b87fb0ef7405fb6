------------------------------ MODULE MCBootMm ------------------------------
(***************************************************************************)
(* Instances of BootMm for TLC: tables of three entries, images that stay  *)
(* in one lowest table or go over several, with text and data in the same  *)
(* one or not.                                                             *)
(***************************************************************************)
EXTENDS BootMm, TLC

ThreeIdx == 0 .. 2
Zeros == {<<2, 0, 0, 0>>, <<1, 0, 0, 0>>}
FrameNumbers == 1 .. 23

Junk == [addr |-> 7, attr |-> P]

SmallImages == {[roseg |-> r, end |-> e] : r \in {1, 2, 3, 4}, e \in {4, 5, 6}}

(* Memory above 16 MB, above 1 MB, or up to 640 KB only.                    *)
Enough == {[base |-> 2, ext |-> 23, ext16 |-> 0],
           [base |-> 2, ext |-> 13, ext16 |-> 3]}

ASSUME RoomAssumption == Readings = Enough => Room

(* Too little for the tables.                                               *)
Little == {[base |-> 2, ext |-> 8, ext16 |-> 0]}
=============================================================================
