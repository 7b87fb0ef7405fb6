------------------------------ MODULE ListHead ------------------------------
(***************************************************************************)
(* The intrusive circular lists of code/include/sumios/list.h, pointer by  *)
(* pointer.  A struct list_head is a cell with a next and a prev word; an  *)
(* operation is its assignments in the order of the code, each of which    *)
(* reads the words the ones before it have written: entry, entry->next and *)
(* entry->prev may be the same cell.                                       *)
(*                                                                         *)
(* The users of the lists (page_alloc.c, slub.c) add a node that is on no  *)
(* list next to a list head, and delete nodes that are on a list.  `lists' *)
(* is what they believe, in the words of module ListSeq.                   *)
(***************************************************************************)
EXTENDS Integers, Sequences

CONSTANTS
  Heads,    \* list heads
  Nodes,    \* the struct list_head inside a struct page
  Wild      \* what a word that was never written may point to

L == INSTANCE ListSeq

Cells == Heads \cup Nodes

ASSUME CellAssumption == /\ Heads \cap Nodes = {}
                         /\ Wild \notin Cells

VARIABLES
  cell,   \* the words of each struct list_head
  ready,  \* the heads list_head_init has been called on
  lists   \* what the users believe is on the list of each head

vars == <<cell, ready, lists>>

-----------------------------------------------------------------------------
(* Assignments; m is the memory.                                            *)
SetNext(m, x, v) == [m EXCEPT ![x].next = v]
SetPrev(m, x, v) == [m EXCEPT ![x].prev = v]

list_head_init(m, e) == SetPrev(SetNext(m, e, e), e, e)

list_empty(m, e) == m[e].next = e /\ m[e].prev = e

(* A slip: entry->next is written before it is read.                        *)
list_add_hasty(m, e, n) ==
  LET m1 == SetNext(m, e, n)
      m2 == SetPrev(m1, m1[e].next, n)
      m3 == SetPrev(m2, n, e)
  IN  SetNext(m3, n, m3[e].next)

list_add_next(m, e, n) ==
  LET m1 == SetPrev(m, m[e].next, n)
      m2 == SetPrev(m1, n, e)
      m3 == SetNext(m2, n, m2[e].next)
  IN  SetNext(m3, e, n)

list_add_prev(m, e, n) ==
  LET m1 == SetNext(m, m[e].prev, n)
      m2 == SetPrev(m1, n, m1[e].prev)
      m3 == SetNext(m2, n, e)
  IN  SetPrev(m3, e, n)

(* A slip: the node stays.                                                  *)
list_del_not(m, e) == m

list_del(m, e) ==
  LET m1 == SetPrev(m, m[e].next, m[e].prev)
  IN  SetNext(m1, m1[e].prev, m1[e].next)

-----------------------------------------------------------------------------
Listed(n) == \E h \in ready : \E i \in DOMAIN lists[h] : lists[h][i] = n

Init == /\ cell = [x \in Cells |-> [next |-> Wild, prev |-> Wild]]
        /\ ready = {}
        /\ lists = [h \in Heads |-> L!list_head_init]

InitHead(h) ==
  /\ h \notin ready
  /\ ready' = ready \cup {h}
  /\ cell' = list_head_init(cell, h)
  /\ lists' = [lists EXCEPT ![h] = L!list_head_init]

AddNext(h, n) ==
  /\ h \in ready /\ ~Listed(n)
  /\ cell' = list_add_next(cell, h, n)
  /\ lists' = [lists EXCEPT ![h] = L!list_add_next(@, n)]
  /\ UNCHANGED ready

AddPrev(h, n) ==
  /\ h \in ready /\ ~Listed(n)
  /\ cell' = list_add_prev(cell, h, n)
  /\ lists' = [lists EXCEPT ![h] = L!list_add_prev(@, n)]
  /\ UNCHANGED ready

(* The caller does not say which list the node is on.                       *)
Del(n) ==
  /\ Listed(n)
  /\ cell' = list_del(cell, n)
  /\ lists' = [h \in Heads |-> L!list_del(lists[h], n)]
  /\ UNCHANGED ready

Next == \/ \E h \in Heads : InitHead(h)
        \/ \E h \in Heads, n \in Nodes : AddNext(h, n) \/ AddPrev(h, n)
        \/ \E n \in Nodes : Del(n)

Spec == Init /\ [][Next]_vars
-----------------------------------------------------------------------------
(* The head and the nodes in the order of the list.                         *)
Ring(h) == <<h>> \o lists[h]

(* Walking along next from a head meets exactly the nodes its user believes *)
(* are on the list, in that order, and comes back to the head; walking      *)
(* along prev meets them backwards.                                         *)
WalksAgree ==
  \A h \in ready : LET r == Ring(h) IN
    \A i \in DOMAIN r :
      LET j == IF i = Len(r) THEN 1 ELSE i + 1 IN
      /\ cell[r[i]].next = r[j]
      /\ cell[r[j]].prev = r[i]

(* An operation on one list writes no word of a cell of another one.        *)
OthersUntouched ==
  [][\A h \in ready :
       lists'[h] = lists[h] =>
         \A i \in DOMAIN Ring(h) : cell'[Ring(h)[i]] = cell[Ring(h)[i]]]_vars
=============================================================================
