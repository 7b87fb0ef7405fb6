------------------------------ MODULE MCStartup ------------------------------
(***************************************************************************)
(* An instance of Startup for TLC: tables of four entries, three lowest    *)
(* tables; words of two bits for addresses in gates.                       *)
(***************************************************************************)
EXTENDS Startup

FourIdx == 0 .. 3
LowFrames == 1 .. 11
NoVas == {}

(* GRUB, GRUB with an odd address, a loader of another kind.                *)
SomeLoaders == {[magic |-> 7, mbi |-> 64, wp |-> FALSE],
                [magic |-> 7, mbi |-> 68, wp |-> FALSE],
                [magic |-> 5, mbi |-> 64, wp |-> FALSE]}

(* A loader may leave CR0.WP set: multiboot2 does not say.                  *)
WithWp == {[magic |-> 7, mbi |-> 64, wp |-> TRUE]}
=============================================================================
