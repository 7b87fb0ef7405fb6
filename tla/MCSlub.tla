------------------------------- MODULE MCSlub -------------------------------
(***************************************************************************)
(* Instances of Slub for TLC.  With pages of four words there are caches   *)
(* for objects of one, two, four and eight words: two sizes below a page,  *)
(* a page and two pages, which is what the kernel's ten sizes come to.     *)
(***************************************************************************)
EXTENDS Slub, TLC

TwoPages == 0 .. 1

(* Requests: four objects to a page; rounded up to a whole page, of which a *)
(* slub has two; too large for every cache.                                 *)
Sizes == {1, 3, 9}
=============================================================================
