---------------------------- MODULE MCPageTable ----------------------------
(***************************************************************************)
(* Instances of PageTable for TLC: tables of two entries, and pages whose  *)
(* walks part at each of the four levels.  FourPages needs eight tables    *)
(* and FivePages ten: the root, three for the first page, one, two and     *)
(* three more for those that part from it at the third, the second and the *)
(* first level.                                                            *)
(***************************************************************************)
EXTENDS PageTable, TLC

TwoIdx == 0 .. 1
FirstPage == <<0, 0, 0, 0>>
ZeroPages == {FirstPage}
FourPages == {FirstPage, <<0, 0, 0, 1>>, <<0, 0, 1, 1>>, <<1, 0, 0, 0>>}
FivePages == FourPages \cup {<<0, 1, 0, 0>>}

(* Enough frames and too few for mm_init.c's copy, too few for that of      *)
(* pgtable.c.                                                               *)
Many == [booting |-> TRUE, frames |-> 2 .. 10]
Few  == [booting |-> TRUE, frames |-> 2 .. 6]
Late == [booting |-> FALSE, frames |-> 2 .. 6]
ThreeSupplies == {Many, Few, Late}

Writable == {RW}

(* A word left over from an earlier life of a frame.                        *)
Junk == [addr |-> Zero, attr |-> P]
=============================================================================
