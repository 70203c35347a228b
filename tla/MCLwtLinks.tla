----------------------------- MODULE MCLwtLinks -----------------------------
(***************************************************************************)
(* LwtLinks on a few cells, with the lists the links stand for.            *)
(***************************************************************************)
EXTENDS LwtLinks, LwtList

\* The lists the links stand for.
Lists == [h \in ListHeads |-> Walk(n, h)]

\* Each operation on the links changes the lists as the operator of LwtList
\* that Lwt uses for it, list_rem also on a node that is on no list.
LinksImplementLists ==
  [][/\ \A h \in ListHeads, x \in Nodes :
          /\ AddLast(h, x) => Lists' = list_head_add(Lists, h, x)
          /\ AddBeforeLast(h, x) => Lists' = list_head_append(Lists, h, x)
     /\ \A x \in Nodes : list_ll_rem(x) => Lists' = list_rem(Lists, x)]_links

=============================================================================
