------------------------------ MODULE LwtLinks ------------------------------
(***************************************************************************)
(* The pointer code of lwt_list.h: circular doubly linked lists through    *)
(* the n and p of every head and every node.  An operation is the sequence *)
(* of its assignments, each on the memory the ones before left.  The users *)
(* (lwt.c, lwt_chl.c) link a node only when it is new or after list_rem,   *)
(* but call list_rem on nodes that may be on no list.                      *)
(***************************************************************************)
EXTENDS Naturals, FiniteSets

CONSTANTS ListHeads, Nodes

ASSUME LinksAssumption == ListHeads \cap Nodes = {} /\ IsFiniteSet(Nodes)

VARIABLES n, p

links == << n, p >>
Cells == ListHeads \cup Nodes

Assign(f, a, b) == [f EXCEPT ![a] = b]

\* list_head_init and list_ll_init.
LinksInit == n = [a \in Cells |-> a] /\ p = [a \in Cells |-> a]

\* new_link->p = link->p; new_link->n = link;
\* new_link->p->n = new_link; new_link->n->p = new_link.
list_ll_add(link, new) ==
  LET p1 == Assign(p, new, p[link])
      n1 == Assign(n, new, link)
  IN  /\ n' = Assign(n1, p1[new], new)
      /\ p' = Assign(p1, n1[new], new)

\* Fault: the node that was removed keeps its links.
list_ll_rem_Dangling(x) ==
  LET p1 == Assign(p, n[x], p[x])
  IN  p' = p1 /\ n' = Assign(n, p1[x], n[x])

\* list->n->p = list->p; list->p->n = list->n; list->p = list->n = list.
list_ll_rem(x) ==
  LET p1 == Assign(p, n[x], p[x])
      n1 == Assign(n, p1[x], n[x])
  IN  /\ n' = Assign(n1, x, x)
      /\ p' = Assign(p1, x, x)

Alone(x) == n[x] = x

AddLast(h, x) == Alone(x) /\ list_ll_add(h, x)

\* Fault: list_head_append defined as list_head_add.
AddBeforeLast_AtEnd(h, x) == Alone(x) /\ list_ll_add(h, x)

AddBeforeLast(h, x) == Alone(x) /\ list_ll_add(p[h], x)

LinksNext ==
  \/ \E h \in ListHeads, x \in Nodes : AddLast(h, x) \/ AddBeforeLast(h, x)
  \/ \E x \in Nodes : list_ll_rem(x)

LinksSpec == LinksInit /\ [][LinksNext]_links

-----------------------------------------------------------------------------
LinksTypeOK == n \in [Cells -> Cells] /\ p \in [Cells -> Cells]

\* Walking forwards and backwards are inverse to each other, whatever is
\* linked, unlinked or unlinked twice: no list is torn or joined to another.
WalksInverse == \A a \in Cells : p[n[a]] = a /\ n[p[a]] = a

-----------------------------------------------------------------------------
\* The list of h by the links f: the nodes met from h->n on, until the walk
\* is back at h, which it is at the latest after all nodes.
Walk(f, h) ==
  LET Step[i \in 0 .. Cardinality(Nodes) + 1] == IF i = 0 THEN h ELSE f[Step[i - 1]]
      Length == CHOOSE i \in 0 .. Cardinality(Nodes) : Step[i + 1] = h /\ \A j \in 1 .. i : Step[j] # h
  IN  [i \in 1 .. Length |-> Step[i]]
=============================================================================
