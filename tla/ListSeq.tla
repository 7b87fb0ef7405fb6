------------------------------- MODULE ListSeq -------------------------------
(***************************************************************************)
(* The doubly linked lists of code/include/sumios/list.h as the rest of    *)
(* the kernel sees them: a list head is the sequence of the nodes one      *)
(* meets from head.next on until one is back at the head.  ListHead models *)
(* the pointers and shows that they behave like these sequences.           *)
(***************************************************************************)
EXTENDS Integers, Sequences, SequencesExt

(* list_head_init makes a list empty; list_empty tests it.                 *)
list_head_init == <<>>
list_empty(s)  == s = <<>>

(* The slips: the old first node is forgotten, and the node stays.          *)
list_add_only(s, q) == <<q>>
list_del_not(s, q)  == s

(* Called on a list head, list_add_next puts the node first and            *)
(* list_add_prev puts it last.                                             *)
list_add_next(s, q) == <<q>> \o s
list_add_prev(s, q) == Append(s, q)

(* list_del takes the node off whatever list it is on.                     *)
list_del(s, q) ==
  IF \E i \in DOMAIN s : s[i] = q
  THEN RemoveAt(s, CHOOSE i \in DOMAIN s : s[i] = q)
  ELSE s
=============================================================================
