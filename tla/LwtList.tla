------------------------------ MODULE LwtList ------------------------------
(***************************************************************************)
(* The intrusive doubly linked lists of lwt_list.h, as seen by their       *)
(* users.  Every thread (and every channel) embeds ONE node, list_node, so *)
(* a node is on at most one list at a time and list_rem takes the node     *)
(* alone: it unlinks it from whichever list it happens to be on.  The      *)
(* state of a family of lists is therefore one function                    *)
(*                                                                         *)
(*      q : heads -> sequences of nodes, first element = head->n           *)
(*                                                                         *)
(* and the operations below are operators from such a function to the      *)
(* next one.  LwtLinks shows that the n/p pointer code implements them.    *)
(***************************************************************************)
EXTENDS Integers, SequencesExt

\* The sequence s without the node x.
Unlinked(s, x) ==
  IF \E i \in 1 .. Len(s) : s[i] = x
    THEN RemoveAt(s, CHOOSE i \in 1 .. Len(s) : s[i] = x)
    ELSE s

\* list_ll_rem unlinks x from the list it is on.  It leaves x linked to
\* itself, so a second removal changes nothing.
list_rem(q, x) == [h \in DOMAIN q |-> Unlinked(q[h], x)]

\* Fault: the new node is linked behind the head.
list_head_add_First(q, h, x) == [q EXCEPT ![h] = << x >> \o @]

\* list_head_add links x in front of the head: at the end of the list.
list_head_add(q, h, x) == [q EXCEPT ![h] = Append(@, x)]

\* list_head_append links x in front of head->p: in front of the LAST node.
BeforeLast(s, x) == IF s = << >> THEN << x >> ELSE InsertAt(s, Len(s), x)
list_head_append(q, h, x) == [q EXCEPT ![h] = BeforeLast(@, x)]

\* list_head_init empties the list of head h.
list_head_init(q, h) == [q EXCEPT ![h] = << >>]

\* x is on the list of head h.
OnList(q, h, x) == \E i \in 1 .. Len(q[h]) : q[h][i] = x

\* The discipline of intrusive lists: a node occupies at most one place of
\* at most one list.
OnePlace(q) ==
  \A h, k \in DOMAIN q : \A i \in 1 .. Len(q[h]), j \in 1 .. Len(q[k]) :
     q[h][i] = q[k][j] => h = k /\ i = j
=============================================================================
