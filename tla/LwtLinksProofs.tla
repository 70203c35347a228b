--------------------------- MODULE LwtLinksProofs ---------------------------
(***************************************************************************)
(* The pointer code of lwt_list.h keeps every list whole, and implements   *)
(* the sequences of LwtList, for any number of heads and nodes.            *)
(*                                                                         *)
(* Linked(f, q) says that f are the links of the lists q, cell by cell and *)
(* without a walk.  It is preserved by entering a node and by taking one   *)
(* out; that a walk then meets q is a consequence, drawn once.             *)
(***************************************************************************)
EXTENDS MCLwtLinks, FiniteSetTheorems, SequenceTheorems, WellFoundedInduction, TLAPS

LinksInv == LinksTypeOK /\ WalksInverse

\* Linking a node that is alone keeps the two walks inverse: the four
\* assignments of list_ll_add go in between link->p and link.
LEMMA AddKeepsInverse ==
  ASSUME LinksInv, NEW link \in Cells, NEW new \in Cells, Alone(new),
         list_ll_add(link, new)
  PROVE  LinksInv'
<1> USE DEF LinksInv, LinksTypeOK, WalksInverse
<1>1. p[new] = new
  BY DEF Alone
<1>2. p[link] \in Cells /\ n[p[link]] = link
  OBVIOUS
<1>3. n' = [[n EXCEPT ![new] = link] EXCEPT ![p[link]] = new]
  <2>1. [p EXCEPT ![new] = p[link]][new] = p[link]
    OBVIOUS
  <2> QED
    BY <2>1 DEF list_ll_add, Assign
<1>4. p' = [[p EXCEPT ![new] = p[link]] EXCEPT ![[n EXCEPT ![new] = link][new]] = new]
  BY DEF list_ll_add, Assign
<1>5. p' = [[p EXCEPT ![new] = p[link]] EXCEPT ![link] = new]
  BY <1>4
<1>6. LinksTypeOK'
  BY <1>3, <1>5
<1>7. ASSUME NEW a \in Cells  PROVE p'[n'[a]] = a /\ n'[p'[a]] = a
  <2>1. n[a] \in Cells /\ p[a] \in Cells /\ p[n[a]] = a /\ n[p[a]] = a
    OBVIOUS
  <2>2. CASE link = new
    BY <1>1, <1>3, <1>5, <2>1, <2>2
  <2>3. CASE link # new
    <3>1. n' = [b \in Cells |-> IF b = p[link] THEN new ELSE IF b = new THEN link ELSE n[b]]
      BY <1>3, <2>3
    <3>2. p' = [b \in Cells |-> IF b = link THEN new ELSE IF b = new THEN p[link] ELSE p[b]]
      BY <1>5, <2>3
    <3>3. p[link] # new
      BY <1>2, <2>3 DEF Alone
    <3>4. p'[n'[a]] = a
      BY <1>2, <2>1, <2>3, <3>1, <3>2, <3>3, <1>1
    <3>5. n'[p'[a]] = a
      BY <1>2, <2>1, <2>3, <3>1, <3>2, <3>3, <1>1
    <3> QED
      BY <3>4, <3>5
  <2> QED
    BY <2>2, <2>3
<1> QED
  BY <1>6, <1>7

\* Unlinking a node keeps the two walks inverse, also when it is alone.
LEMMA RemKeepsInverse ==
  ASSUME LinksInv, NEW x \in Cells, list_ll_rem(x)
  PROVE  LinksInv'
<1> USE DEF LinksInv, LinksTypeOK, WalksInverse
<1>1. n[x] \in Cells /\ p[x] \in Cells /\ p[n[x]] = x /\ n[p[x]] = x
  OBVIOUS
<1>2. CASE n[x] = x
  <2>1. p[x] = x
    BY <1>1, <1>2
  <2>2. [p EXCEPT ![n[x]] = p[x]] = p
    BY <1>2, <2>1
  <2>3. n' = n /\ p' = p
    BY <1>2, <2>1, <2>2 DEF list_ll_rem, Assign
  <2> QED
    BY <2>3
<1>3. CASE n[x] # x
  <2>1. p[x] # x
    BY <1>1, <1>3
  <2>2. [p EXCEPT ![n[x]] = p[x]][x] = p[x]
    BY <1>1, <1>3
  <2>3. p' = [b \in Cells |-> IF b = x THEN x ELSE IF b = n[x] THEN p[x] ELSE p[b]]
    BY <1>1, <1>3 DEF list_ll_rem, Assign
  <2>4. n' = [b \in Cells |-> IF b = x THEN x ELSE IF b = p[x] THEN n[x] ELSE n[b]]
    BY <1>1, <1>3, <2>2 DEF list_ll_rem, Assign
  <2>5. LinksTypeOK'
    BY <1>1, <2>3, <2>4
  <2>6. ASSUME NEW a \in Cells  PROVE p'[n'[a]] = a /\ n'[p'[a]] = a
    <3>1. n[a] \in Cells /\ p[a] \in Cells /\ p[n[a]] = a /\ n[p[a]] = a
      OBVIOUS
    <3> QED
      BY <1>1, <1>3, <2>1, <2>3, <2>4, <3>1
  <2> QED
    BY <2>5, <2>6
<1> QED
  BY <1>2, <1>3

\* No list is ever torn or joined to another one: whatever list_head_add,
\* list_head_append and list_rem do, also to nodes that are on no list,
\* walking by n and walking by p are inverse.
THEOREM ListsStayWhole == LinksSpec => [](LinksTypeOK /\ WalksInverse)
<1>1. LinksInit => LinksInv
  BY DEF LinksInit, LinksInv, LinksTypeOK, WalksInverse
<1>2. LinksInv /\ [LinksNext]_links => LinksInv'
  <2> SUFFICES ASSUME LinksInv, [LinksNext]_links  PROVE LinksInv'
    OBVIOUS
  <2>1. ASSUME NEW h \in ListHeads, NEW x \in Nodes, AddLast(h, x)  PROVE LinksInv'
    BY <2>1, AddKeepsInverse DEF AddLast, Cells
  <2>2. ASSUME NEW h \in ListHeads, NEW x \in Nodes, AddBeforeLast(h, x)  PROVE LinksInv'
    <3>1. p[h] \in Cells /\ x \in Cells
      BY DEF LinksInv, LinksTypeOK, Cells
    <3> QED
      BY <2>2, <3>1, AddKeepsInverse DEF AddBeforeLast
  <2>3. ASSUME NEW x \in Nodes, list_ll_rem(x)  PROVE LinksInv'
    BY <2>3, RemKeepsInverse DEF Cells
  <2>4. CASE UNCHANGED links
    BY <2>4 DEF links, LinksInv, LinksTypeOK, WalksInverse
  <2> QED
    BY <2>1, <2>2, <2>3, <2>4 DEF LinksNext
<1> QED
  BY <1>1, <1>2, PTL DEF LinksSpec, LinksInv

-----------------------------------------------------------------------------
(* Sequences and numbers.                                                   *)

\* RemoveAt shifts what comes behind the place it empties.
LEMMA RemoveAtElements ==
  ASSUME NEW S, NEW s \in Seq(S), NEW i \in 1 .. Len(s)
  PROVE  /\ RemoveAt(s, i) \in Seq(S)
         /\ Len(RemoveAt(s, i)) = Len(s) - 1
         /\ \A j \in 1 .. Len(s) - 1 : RemoveAt(s, i)[j] = IF j < i THEN s[j] ELSE s[j + 1]
<1> DEFINE before == SubSeq(s, 1, i - 1)
           behind == SubSeq(s, i + 1, Len(s))
<1>0. Len(s) \in Nat
  BY LenProperties
<1>1. /\ before \in Seq(S) /\ Len(before) = i - 1
      /\ \A j \in 1 .. i - 1 : before[j] = s[j]
  <2>1. \A j \in 1 .. i - 1 : s[j] \in S
    BY <1>0, ElementOfSeq
  <2>2. /\ before \in Seq(S)
        /\ Len(before) = IF 1 <= i - 1 THEN i - 1 - 1 + 1 ELSE 0
        /\ \A j \in 1 .. i - 1 - 1 + 1 : before[j] = s[1 + j - 1]
    BY <1>0, <2>1, SubSeqProperties
  <2> QED
    BY <1>0, <2>2
<1>2. /\ behind \in Seq(S) /\ Len(behind) = Len(s) - i
      /\ \A j \in 1 .. Len(s) - i : behind[j] = s[i + j]
  <2>1. \A j \in i + 1 .. Len(s) : s[j] \in S
    BY <1>0, ElementOfSeq
  <2>2. /\ behind \in Seq(S)
        /\ Len(behind) = IF i + 1 <= Len(s) THEN Len(s) - (i + 1) + 1 ELSE 0
        /\ \A j \in 1 .. Len(s) - (i + 1) + 1 : behind[j] = s[(i + 1) + j - 1]
    BY <1>0, <2>1, SubSeqProperties
  <2> QED
    BY <1>0, <2>2
<1>3. RemoveAt(s, i) = before \o behind
  BY DEF RemoveAt
<1>4. /\ before \o behind \in Seq(S)
      /\ Len(before \o behind) = Len(before) + Len(behind)
      /\ \A j \in 1 .. Len(before) + Len(behind) :
            (before \o behind)[j] = IF j <= Len(before) THEN before[j] ELSE behind[j - Len(before)]
  BY <1>1, <1>2, ConcatProperties
<1> HIDE DEF before, behind
<1> QED
  BY <1>0, <1>1, <1>2, <1>3, <1>4

\* InsertAt shifts the place i and what comes behind it.
LEMMA InsertAtElements ==
  ASSUME NEW S, NEW s \in Seq(S), NEW i \in 1 .. Len(s), NEW x \in S
  PROVE  /\ InsertAt(s, i, x) \in Seq(S)
         /\ Len(InsertAt(s, i, x)) = Len(s) + 1
         /\ \A j \in 1 .. Len(s) + 1 :
              InsertAt(s, i, x)[j] = IF j < i THEN s[j] ELSE IF j = i THEN x ELSE s[j - 1]
<1> DEFINE before == SubSeq(s, 1, i - 1)
           behind == SubSeq(s, i, Len(s))
           first  == before \o << x >>
<1>0. Len(s) \in Nat
  BY LenProperties
<1>1. /\ before \in Seq(S) /\ Len(before) = i - 1
      /\ \A j \in 1 .. i - 1 : before[j] = s[j]
  <2>1. \A j \in 1 .. i - 1 : s[j] \in S
    BY <1>0, ElementOfSeq
  <2>2. /\ before \in Seq(S)
        /\ Len(before) = IF 1 <= i - 1 THEN i - 1 - 1 + 1 ELSE 0
        /\ \A j \in 1 .. i - 1 - 1 + 1 : before[j] = s[1 + j - 1]
    BY <1>0, <2>1, SubSeqProperties
  <2> QED
    BY <1>0, <2>2
<1>2. /\ behind \in Seq(S) /\ Len(behind) = Len(s) - i + 1
      /\ \A j \in 1 .. Len(s) - i + 1 : behind[j] = s[i + j - 1]
  <2>1. \A j \in i .. Len(s) : s[j] \in S
    BY <1>0, ElementOfSeq
  <2>2. /\ behind \in Seq(S)
        /\ Len(behind) = IF i <= Len(s) THEN Len(s) - i + 1 ELSE 0
        /\ \A j \in 1 .. Len(s) - i + 1 : behind[j] = s[i + j - 1]
    BY <1>0, <2>1, SubSeqProperties
  <2> QED
    BY <1>0, <2>2
<1>3. << x >> \in Seq(S) /\ Len(<< x >>) = 1 /\ << x >>[1] = x
  OBVIOUS
<1>4. /\ first \in Seq(S) /\ Len(first) = i
      /\ \A j \in 1 .. i : first[j] = IF j < i THEN s[j] ELSE x
  <2>1. /\ first \in Seq(S)
        /\ Len(first) = Len(before) + Len(<< x >>)
        /\ \A j \in 1 .. Len(before) + Len(<< x >>) :
              first[j] = IF j <= Len(before) THEN before[j] ELSE << x >>[j - Len(before)]
    BY <1>1, <1>3, ConcatProperties
  <2> HIDE DEF before, first
  <2> QED
    BY <1>0, <1>1, <1>3, <2>1
<1>5. InsertAt(s, i, x) = first \o behind
  BY DEF InsertAt
<1>6. /\ first \o behind \in Seq(S)
      /\ Len(first \o behind) = Len(first) + Len(behind)
      /\ \A j \in 1 .. Len(first) + Len(behind) :
            (first \o behind)[j] = IF j <= Len(first) THEN first[j] ELSE behind[j - Len(first)]
  BY <1>2, <1>4, ConcatProperties
<1> HIDE DEF before, behind, first
<1> QED
  BY <1>0, <1>2, <1>4, <1>5, <1>6

\* Every set of numbers has a smallest: with this fact in the place of an
\* induction rule, a statement about all numbers is proved at the smallest
\* number it would not hold of.
LEMMA SmallestOf ==
  ASSUME NEW S \in SUBSET Nat, S # {}
  PROVE  \E m \in S : \A k \in S : m <= k
<1>1. IsWellFoundedOn(OpToRel(<, Nat), Nat)
  BY NatLessThanWellFounded
<1>2. PICK m \in S : \A k \in S : ~ (<< k, m >> \in OpToRel(<, Nat))
  BY <1>1, WFMin
<1>3. \A k \in S : << k, m >> \in Nat \X Nat => ~ (k < m)
  BY <1>2 DEF OpToRel
<1>4. ASSUME NEW k \in S
      PROVE  m <= k
  <2>1. k \in Nat /\ m \in Nat /\ ~ (k < m)
    BY <1>3
  <2> QED
    BY <2>1
<1> QED
  BY <1>4

-----------------------------------------------------------------------------
(* The lists links stand for.                                               *)

\* The cells of the list of h: h itself, its nodes, and h again.
Cell(q, h, i) == IF i \in 1 .. Len(q[h]) THEN q[h][i] ELSE h

\* f are the links n of the family q of lists: they lead from each cell of a
\* list to the next, and from a node on no list to itself.
Linked(f, q) ==
  /\ q \in [ListHeads -> Seq(Nodes)] /\ OnePlace(q)
  /\ \A h \in ListHeads : \A i \in 0 .. Len(q[h]) : f[Cell(q, h, i)] = Cell(q, h, i + 1)
  /\ \A x \in Nodes : (\A h \in ListHeads : ~OnList(q, h, x)) => f[x] = x

LEMMA CellFacts ==
  ASSUME NEW q \in [ListHeads -> Seq(Nodes)], NEW h \in ListHeads
  PROVE  /\ q[h] \in Seq(Nodes) /\ Len(q[h]) \in Nat
         /\ \A i \in 1 .. Len(q[h]) : q[h][i] \in Nodes /\ Cell(q, h, i) = q[h][i]
         /\ \A i : i \notin 1 .. Len(q[h]) => Cell(q, h, i) = h
         /\ \A i : Cell(q, h, i) \in Cells
<1>1. q[h] \in Seq(Nodes) /\ Len(q[h]) \in Nat
  BY LenProperties
<1>2. \A i \in 1 .. Len(q[h]) : q[h][i] \in Nodes
  BY <1>1, ElementOfSeq
<1> QED
  BY <1>1, <1>2 DEF Cell, Cells

\* No cell is in two places.
LEMMA CellsApart ==
  ASSUME NEW q \in [ListHeads -> Seq(Nodes)], OnePlace(q),
         NEW h \in ListHeads, NEW i \in 0 .. Len(q[h]),
         NEW g \in ListHeads, NEW j \in 0 .. Len(q[g]), Cell(q, h, i) = Cell(q, g, j)
  PROVE  h = g /\ i = j
<1>1. /\ Len(q[h]) \in Nat /\ Len(q[g]) \in Nat
      /\ i \in 1 .. Len(q[h]) => q[h][i] \in Nodes /\ Cell(q, h, i) = q[h][i]
      /\ i \notin 1 .. Len(q[h]) => Cell(q, h, i) = h
      /\ j \in 1 .. Len(q[g]) => q[g][j] \in Nodes /\ Cell(q, g, j) = q[g][j]
      /\ j \notin 1 .. Len(q[g]) => Cell(q, g, j) = g
  BY CellFacts
<1>2. CASE i \in 1 .. Len(q[h]) /\ j \in 1 .. Len(q[g])
  BY <1>1, <1>2 DEF OnePlace
<1>3. CASE i \notin 1 .. Len(q[h]) /\ j \notin 1 .. Len(q[g])
  BY <1>1, <1>3
<1>4. CASE i \in 1 .. Len(q[h]) /\ j \notin 1 .. Len(q[g])
  BY <1>1, <1>4, LinksAssumption
<1>5. CASE i \notin 1 .. Len(q[h]) /\ j \in 1 .. Len(q[g])
  BY <1>1, <1>5, LinksAssumption
<1> QED
  BY <1>2, <1>3, <1>4, <1>5

\* Every node is alone or in a place, and only then.
LEMMA AloneIsUnlisted ==
  ASSUME NEW f, NEW q, Linked(f, q), NEW x \in Nodes, f[x] = x
  PROVE  \A h \in ListHeads : ~OnList(q, h, x)
<1> SUFFICES ASSUME NEW h \in ListHeads, NEW i \in 1 .. Len(q[h]), q[h][i] = x
             PROVE  FALSE
  BY DEF OnList
<1>1. q \in [ListHeads -> Seq(Nodes)] /\ OnePlace(q)
  BY DEF Linked
<1>2. Len(q[h]) \in Nat /\ i \in 0 .. Len(q[h]) /\ Cell(q, h, i) = x
  BY <1>1, CellFacts
<1>3. Cell(q, h, i + 1) = x
  BY <1>2 DEF Linked
<1>4. CASE i < Len(q[h])
  <2>1. i + 1 \in 0 .. Len(q[h])
    BY <1>2, <1>4
  <2>2. Cell(q, h, i) = Cell(q, h, i + 1) /\ i \in 0 .. Len(q[h])
    BY <1>2, <1>3
  <2>3. i = i + 1
    BY <1>1, <2>1, <2>2, CellsApart
  <2> QED
    BY <1>2, <2>3
<1>5. CASE ~ (i < Len(q[h]))
  <2>1. i + 1 \notin 1 .. Len(q[h])
    BY <1>2, <1>5
  <2>2. x = h
    BY <1>1, <1>3, <2>1, CellFacts
  <2> QED
    BY <2>2, LinksAssumption
<1> QED
  BY <1>4, <1>5

-----------------------------------------------------------------------------
(* One node more on one list, and one less.                                 *)

\* The lists r are the lists q with x entered as node k of h.
Entered(q, r, h, k, x) ==
  /\ r \in [ListHeads -> Seq(Nodes)]
  /\ k \in 1 .. Len(q[h]) + 1 /\ Len(r[h]) = Len(q[h]) + 1
  /\ \A j \in 1 .. Len(q[h]) + 1 :
        r[h][j] = IF j < k THEN q[h][j] ELSE IF j = k THEN x ELSE q[h][j - 1]
  /\ \A g \in ListHeads \ {h} : r[g] = q[g]

LEMMA EnteredCells ==
  ASSUME NEW q \in [ListHeads -> Seq(Nodes)], NEW r, NEW h \in ListHeads, NEW k, NEW x \in Nodes,
         Entered(q, r, h, k, x)
  PROVE  /\ \A i \in Nat :
              Cell(r, h, i) = IF i < k THEN Cell(q, h, i) ELSE IF i = k THEN x ELSE Cell(q, h, i - 1)
         /\ \A g \in ListHeads \ {h} : \A i \in Nat : Cell(r, g, i) = Cell(q, g, i)
<1>1. Len(q[h]) \in Nat
  BY CellFacts
<1>2. ASSUME NEW i \in Nat
      PROVE  Cell(r, h, i) = IF i < k THEN Cell(q, h, i) ELSE IF i = k THEN x ELSE Cell(q, h, i - 1)
  <2>1. CASE i \in 1 .. Len(q[h]) + 1
    <3>1. Cell(r, h, i) = r[h][i]
      BY <2>1 DEF Cell, Entered
    <3>2. i < k => Cell(q, h, i) = q[h][i]
      BY <1>1, <2>1 DEF Cell, Entered
    <3>3. i > k => Cell(q, h, i - 1) = q[h][i - 1]
      BY <1>1, <2>1 DEF Cell, Entered
    <3> QED
      BY <2>1, <3>1, <3>2, <3>3 DEF Entered
  <2>2. CASE i \notin 1 .. Len(q[h]) + 1
    <3>1. Cell(r, h, i) = h /\ i # k
      BY <1>1, <2>2 DEF Cell, Entered
    <3>2. Cell(q, h, i) = h
      BY <1>1, <2>2 DEF Cell
    <3>3. i > k => Cell(q, h, i - 1) = h
      BY <1>1, <2>2 DEF Cell, Entered
    <3> QED
      BY <3>1, <3>2, <3>3 DEF Entered
  <2> QED
    BY <2>1, <2>2
<1>3. \A g \in ListHeads \ {h} : \A i \in Nat : Cell(r, g, i) = Cell(q, g, i)
  BY DEF Cell, Entered
<1> QED
  BY <1>2, <1>3

\* A node in a cell is on that list.
LEMMA CellOnList ==
  ASSUME NEW q \in [ListHeads -> Seq(Nodes)], NEW h \in ListHeads, NEW i, NEW x \in Nodes,
         Cell(q, h, i) = x
  PROVE  OnList(q, h, x) /\ i \in 1 .. Len(q[h])
<1>1. i \in 1 .. Len(q[h]) \/ x = h
  BY DEF Cell
<1>2. i \in 1 .. Len(q[h])
  BY <1>1, LinksAssumption
<1> QED
  BY <1>2 DEF Cell, OnList

\* list_ll_add between two neighbours enters the node there.
LEMMA EnterKeepsLinked ==
  ASSUME NEW f, NEW q, Linked(f, q), NEW h \in ListHeads, NEW x \in Nodes,
         \A g \in ListHeads : ~OnList(q, g, x), NEW k, NEW r, Entered(q, r, h, k, x),
         NEW e, e[x] = Cell(q, h, k), e[Cell(q, h, k - 1)] = x,
         \A a \in Cells : a # x /\ a # Cell(q, h, k - 1) => e[a] = f[a]
  PROVE  Linked(e, r)
<1>1. /\ q \in [ListHeads -> Seq(Nodes)] /\ OnePlace(q) /\ r \in [ListHeads -> Seq(Nodes)]
      /\ Len(q[h]) \in Nat /\ k \in 1 .. Len(q[h]) + 1 /\ Len(r[h]) = Len(q[h]) + 1
      /\ \A g \in ListHeads \ {h} : r[g] = q[g]
      /\ DOMAIN r = ListHeads /\ DOMAIN q = ListHeads
  BY CellFacts DEF Linked, Entered
<1>2. /\ \A i \in Nat :
           Cell(r, h, i) = IF i < k THEN Cell(q, h, i) ELSE IF i = k THEN x ELSE Cell(q, h, i - 1)
      /\ \A g \in ListHeads \ {h} : \A i \in Nat : Cell(r, g, i) = Cell(q, g, i)
  <2>1. q \in [ListHeads -> Seq(Nodes)]
    BY <1>1
  <2> QED
    BY <2>1, EnteredCells
<1>3. ASSUME NEW g \in ListHeads, NEW i
      PROVE  Cell(q, g, i) \in Cells /\ Cell(q, g, i) # x
  <2>1. Cell(q, g, i) \in Cells
    BY <1>1, CellFacts
  <2>2. Cell(q, g, i) = x => OnList(q, g, x)
    BY <1>1, CellOnList
  <2> QED
    BY <2>1, <2>2
<1>4. \A g \in ListHeads : \A i \in 0 .. Len(q[g]) : f[Cell(q, g, i)] = Cell(q, g, i + 1)
  BY DEF Linked
<1>5. ASSUME NEW g \in ListHeads, NEW i \in 0 .. Len(q[g]), ~ (g = h /\ i = k - 1)
      PROVE  e[Cell(q, g, i)] = Cell(q, g, i + 1)
  <2>1. q \in [ListHeads -> Seq(Nodes)] /\ OnePlace(q) /\ k - 1 \in 0 .. Len(q[h])
    BY <1>1
  <2>2. Cell(q, g, i) # Cell(q, h, k - 1)
    BY <1>5, <2>1, CellsApart
  <2> QED
    BY <1>3, <1>4, <2>2
<1>6. OnePlace(r)
  <2>1. ASSUME NEW g \in ListHeads, NEW i \in 1 .. Len(r[g]), ~ (g = h /\ i = k)
        PROVE  /\ g = h /\ i > k => i - 1 \in 1 .. Len(q[g]) /\ r[g][i] = q[g][i - 1]
               /\ ~ (g = h /\ i > k) => i \in 1 .. Len(q[g]) /\ r[g][i] = q[g][i]
    <3>1. CASE g = h
      BY <1>1, <2>1, <3>1 DEF Entered
    <3>2. CASE g # h
      BY <1>1, <3>2
    <3> QED
      BY <3>1, <3>2
  <2>2. r[h][k] = x
    BY <1>1 DEF Entered
  <2>3. ASSUME NEW g \in ListHeads, NEW i \in 1 .. Len(r[g]), ~ (g = h /\ i = k)
        PROVE  r[g][i] # x
    BY <2>1, <2>3 DEF OnList
  <2>4. ASSUME NEW g \in ListHeads, NEW i \in 1 .. Len(r[g]),
               NEW c \in ListHeads, NEW j \in 1 .. Len(r[c]), r[g][i] = r[c][j]
        PROVE  g = c /\ i = j
    <3>1. CASE g = h /\ i = k
      BY <2>2, <2>3, <2>4, <3>1
    <3>2. CASE c = h /\ j = k
      BY <2>2, <2>3, <2>4, <3>2
    <3>3. CASE ~ (g = h /\ i = k) /\ ~ (c = h /\ j = k)
      <4> DEFINE i0 == IF g = h /\ i > k THEN i - 1 ELSE i
                 j0 == IF c = h /\ j > k THEN j - 1 ELSE j
      <4>1. i0 \in 1 .. Len(q[g]) /\ r[g][i] = q[g][i0]
        BY <2>1, <3>3
      <4>2. j0 \in 1 .. Len(q[c]) /\ r[c][j] = q[c][j0]
        BY <2>1, <3>3
      <4> HIDE DEF i0, j0
      <4>3. g = c /\ i0 = j0
        <5>1. q[g][i0] = q[c][j0] /\ g \in DOMAIN q /\ c \in DOMAIN q
          BY <1>1, <2>4, <4>1, <4>2
        <5>2. OnePlace(q)
          BY <1>1
        <5> QED
          BY <4>1, <4>2, <5>1, <5>2 DEF OnePlace
      <4> QED
        <5>1. CASE g = h
          BY <1>1, <3>3, <4>3, <5>1 DEF i0, j0
        <5>2. CASE g # h
          BY <4>3, <5>2 DEF i0, j0
        <5> QED
          BY <5>1, <5>2
    <3> QED
      BY <3>1, <3>2, <3>3
  <2> QED
    BY <1>1, <2>4 DEF OnePlace
<1>7. ASSUME NEW g \in ListHeads, NEW i \in 0 .. Len(r[g])
      PROVE  e[Cell(r, g, i)] = Cell(r, g, i + 1)
  <2>1. CASE g # h
    <3>1. r[g] = q[g] /\ i \in Nat /\ i + 1 \in Nat
      BY <1>1, <2>1
    <3>2. Cell(r, g, i) = Cell(q, g, i) /\ Cell(r, g, i + 1) = Cell(q, g, i + 1)
      BY <1>2, <2>1, <3>1
    <3> QED
      BY <1>5, <2>1, <3>1, <3>2
  <2>2. CASE g = h
    <3>0. i \in 0 .. Len(q[h]) + 1
      BY <1>1, <2>2
    <3>1. CASE i < k - 1
      <4>1. Cell(r, h, i) = Cell(q, h, i) /\ Cell(r, h, i + 1) = Cell(q, h, i + 1)
        BY <1>1, <1>2, <3>0, <3>1
      <4>2. e[Cell(q, h, i)] = Cell(q, h, i + 1)
        BY <1>1, <1>5, <3>0, <3>1
      <4> QED
        BY <2>2, <4>1, <4>2
    <3>2. CASE i = k - 1
      <4>1. Cell(r, h, i) = Cell(q, h, k - 1) /\ Cell(r, h, i + 1) = x
        BY <1>1, <1>2, <3>0, <3>2
      <4> QED
        BY <2>2, <4>1
    <3>3. CASE i = k
      <4>1. Cell(r, h, i) = x /\ Cell(r, h, i + 1) = Cell(q, h, k)
        BY <1>1, <1>2, <3>0, <3>3
      <4> QED
        BY <2>2, <4>1
    <3>4. CASE i > k
      <4>1. Cell(r, h, i) = Cell(q, h, i - 1) /\ Cell(r, h, i + 1) = Cell(q, h, i)
        BY <1>1, <1>2, <3>0, <3>4
      <4>2. i - 1 \in 0 .. Len(q[h]) /\ i - 1 # k - 1 /\ i - 1 + 1 = i
        BY <1>1, <3>0, <3>4
      <4>3. e[Cell(q, h, i - 1)] = Cell(q, h, i)
        BY <1>5, <4>2
      <4> QED
        BY <2>2, <4>1, <4>3
    <3> QED
      BY <1>1, <3>0, <3>1, <3>2, <3>3, <3>4
  <2> QED
    BY <2>1, <2>2
<1>8. ASSUME NEW y \in Nodes, \A g \in ListHeads : ~OnList(r, g, y)
      PROVE  e[y] = y
  <2>1. r[h][k] = x /\ k \in 1 .. Len(r[h])
    BY <1>1 DEF Entered
  <2>2. y # x
    BY <1>8, <2>1 DEF OnList
  <2>3. ASSUME NEW g \in ListHeads, NEW i \in 1 .. Len(q[g]), q[g][i] = y
        PROVE  FALSE
    <3>1. i \in Nat /\ i + 1 \in Nat /\ Cell(q, g, i) = y
      <4>1. Len(q[g]) \in Nat /\ Cell(q, g, i) = q[g][i]
        BY <1>1, CellFacts
      <4> QED
        BY <2>3, <4>1
    <3>2. Cell(r, g, i) = y \/ Cell(r, g, i + 1) = y
      <4>1. CASE g # h
        BY <1>2, <3>1, <4>1
      <4>2. CASE g = h
        <5>1. i < k \/ (~ (i + 1 < k) /\ i + 1 # k /\ i + 1 - 1 = i)
          BY <1>1, <3>1
        <5> QED
          BY <1>2, <3>1, <4>2, <5>1
      <4> QED
        BY <4>1, <4>2
    <3>3. OnList(r, g, y)
      BY <1>1, <3>2, CellOnList
    <3> QED
      BY <1>8, <3>3
  <2>4. \A g \in ListHeads : ~OnList(q, g, y)
    BY <2>3 DEF OnList
  <2>5. y # Cell(q, h, k - 1)
    BY <1>1, <2>4, CellOnList
  <2> QED
    BY <2>2, <2>4, <2>5 DEF Linked, Cells
<1> QED
  BY <1>1, <1>6, <1>7, <1>8 DEF Linked

\* list_ll_rem leads its neighbours past the node.
LEMMA LeaveKeepsLinked ==
  ASSUME NEW f, NEW q, Linked(f, q), NEW h \in ListHeads, NEW x \in Nodes,
         NEW k, NEW r \in [ListHeads -> Seq(Nodes)], Entered(r, q, h, k, x),
         NEW e, e[x] = x, e[Cell(q, h, k - 1)] = f[x],
         \A a \in Cells : a # x /\ a # Cell(q, h, k - 1) => e[a] = f[a]
  PROVE  Linked(e, r)
<1>1. /\ q \in [ListHeads -> Seq(Nodes)] /\ OnePlace(q)
      /\ Len(r[h]) \in Nat /\ k \in 1 .. Len(r[h]) + 1 /\ Len(q[h]) = Len(r[h]) + 1
      /\ \A g \in ListHeads \ {h} : r[g] = q[g]
      /\ DOMAIN r = ListHeads /\ DOMAIN q = ListHeads
  BY CellFacts DEF Linked, Entered
<1>2. /\ \A i \in Nat :
           Cell(q, h, i) = IF i < k THEN Cell(r, h, i) ELSE IF i = k THEN x ELSE Cell(r, h, i - 1)
      /\ \A g \in ListHeads \ {h} : \A i \in Nat : Cell(q, g, i) = Cell(r, g, i)
  <2> DEFINE Is(c) == Entered(r, q, h, c, x)
  <2>1. r \in [ListHeads -> Seq(Nodes)] /\ Is(k)
    OBVIOUS
  <2> QED
    BY <2>1, EnteredCells
<1>3. Cell(q, h, k) = x /\ k \in 0 .. Len(q[h]) /\ k - 1 \in 0 .. Len(q[h])
  BY <1>1, <1>2
<1>4. \A g \in ListHeads : \A i \in 0 .. Len(q[g]) : f[Cell(q, g, i)] = Cell(q, g, i + 1)
  BY DEF Linked
<1>5. ASSUME NEW g \in ListHeads, NEW i \in 0 .. Len(q[g]), ~ (g = h /\ (i = k - 1 \/ i = k))
      PROVE  e[Cell(q, g, i)] = Cell(q, g, i + 1)
  <2>0. q \in [ListHeads -> Seq(Nodes)] /\ OnePlace(q) /\ k \in 0 .. Len(q[h]) /\ k - 1 \in 0 .. Len(q[h])
    BY <1>1, <1>3
  <2>1. Cell(q, g, i) # Cell(q, h, k - 1)
    BY <1>5, <2>0, CellsApart
  <2>2. Cell(q, g, i) # Cell(q, h, k)
    BY <1>5, <2>0, CellsApart
  <2>3. Cell(q, g, i) \in Cells
    BY <1>1, CellFacts
  <2> QED
    BY <1>3, <1>4, <2>1, <2>2, <2>3
<1>6. OnePlace(r)
  <2>1. ASSUME NEW g \in ListHeads, NEW i \in 1 .. Len(r[g])
        PROVE  /\ g = h /\ i >= k => i + 1 \in 1 .. Len(q[g]) /\ r[g][i] = q[g][i + 1]
               /\ ~ (g = h /\ i >= k) => i \in 1 .. Len(q[g]) /\ r[g][i] = q[g][i]
    <3>1. CASE g = h
      BY <1>1, <3>1 DEF Entered
    <3>2. CASE g # h
      BY <1>1, <3>2
    <3> QED
      BY <3>1, <3>2
  <2>2. ASSUME NEW g \in ListHeads, NEW i \in 1 .. Len(r[g]),
               NEW c \in ListHeads, NEW j \in 1 .. Len(r[c]), r[g][i] = r[c][j]
        PROVE  g = c /\ i = j
    <3> DEFINE i0 == IF g = h /\ i >= k THEN i + 1 ELSE i
               j0 == IF c = h /\ j >= k THEN j + 1 ELSE j
    <3>1. i0 \in 1 .. Len(q[g]) /\ r[g][i] = q[g][i0]
      BY <2>1
    <3>2. j0 \in 1 .. Len(q[c]) /\ r[c][j] = q[c][j0]
      BY <2>1
    <3> HIDE DEF i0, j0
    <3>3. q[g][i0] = q[c][j0] /\ g \in DOMAIN q /\ c \in DOMAIN q
      BY <1>1, <2>2, <3>1, <3>2
    <3>4. OnePlace(q)
      BY <1>1
    <3>5. g = c /\ i0 = j0
      <4>1. i0 \in 1 .. Len(q[g]) /\ j0 \in 1 .. Len(q[c])
        BY <3>1, <3>2
      <4> QED
        BY <3>3, <3>4, <4>1 DEF OnePlace
    <3>6. CASE g = h
      BY <1>1, <3>5, <3>6 DEF i0, j0
    <3>7. CASE g # h
      BY <3>5, <3>7 DEF i0, j0
    <3> QED
      BY <3>6, <3>7
  <2> QED
    BY <1>1, <2>2 DEF OnePlace
<1>7. ASSUME NEW g \in ListHeads, NEW i \in 0 .. Len(r[g])
      PROVE  e[Cell(r, g, i)] = Cell(r, g, i + 1)
  <2>1. CASE g # h
    <3>1. r[g] = q[g] /\ i \in Nat /\ i + 1 \in Nat
      BY <1>1, <2>1
    <3>2. Cell(q, g, i) = Cell(r, g, i) /\ Cell(q, g, i + 1) = Cell(r, g, i + 1)
      BY <1>2, <2>1, <3>1
    <3> QED
      BY <1>5, <2>1, <3>1, <3>2
  <2>2. CASE g = h
    <3>0. i \in 0 .. Len(r[h])
      BY <2>2
    <3>1. CASE i < k - 1
      <4>1. Cell(r, h, i) = Cell(q, h, i) /\ Cell(r, h, i + 1) = Cell(q, h, i + 1)
        BY <1>1, <1>2, <3>0, <3>1
      <4>2. e[Cell(q, h, i)] = Cell(q, h, i + 1)
        BY <1>1, <1>5, <3>0, <3>1
      <4> QED
        BY <2>2, <4>1, <4>2
    <3>2. CASE i = k - 1
      <4>2. Cell(q, h, k + 1) = Cell(r, h, i + 1)
        <5> DEFINE j == k + 1
        <5>1. j \in Nat /\ ~ (j < k) /\ j # k /\ j - 1 = i + 1
          BY <1>1, <3>2
        <5> HIDE DEF j
        <5>2. Cell(q, h, j) = Cell(r, h, j - 1)
          BY <1>2, <5>1
        <5> QED
          BY <5>1, <5>2 DEF j
      <4>3. f[x] = Cell(q, h, k + 1)
        BY <1>3, <1>4
      <4>4. i \in Nat /\ i < k
        BY <1>1, <3>0, <3>2
      <4>5. Cell(r, h, i) = Cell(q, h, k - 1)
        BY <1>2, <3>2, <4>4
      <4> QED
        BY <2>2, <4>2, <4>3, <4>5
    <3>3. CASE i >= k
      <4>1. i + 1 \in Nat /\ ~ (i + 1 < k) /\ i + 1 # k /\ i + 1 - 1 = i
        BY <1>1, <3>0, <3>3
      <4>2. i + 2 \in Nat /\ ~ (i + 2 < k) /\ i + 2 # k /\ i + 2 - 1 = i + 1
        BY <1>1, <3>0, <3>3
      <4>3. Cell(q, h, i + 1) = Cell(r, h, i)
        BY <1>2, <4>1
      <4>4. Cell(q, h, i + 2) = Cell(r, h, i + 1)
        BY <1>2, <4>2
      <4>5. i + 1 \in 0 .. Len(q[h]) /\ i + 1 # k - 1 /\ i + 1 # k /\ i + 1 + 1 = i + 2
        BY <1>1, <3>0, <3>3
      <4>6. e[Cell(q, h, i + 1)] = Cell(q, h, i + 2)
        BY <1>5, <4>5
      <4> QED
        BY <2>2, <4>3, <4>4, <4>6
    <3> QED
      BY <1>1, <3>0, <3>1, <3>2, <3>3
  <2> QED
    BY <2>1, <2>2
<1>8. ASSUME NEW y \in Nodes, \A g \in ListHeads : ~OnList(r, g, y)
      PROVE  e[y] = y
  <2>1. CASE y = x
    BY <2>1
  <2>2. CASE y # x
    <3>1. ASSUME NEW g \in ListHeads, NEW i \in 1 .. Len(q[g]), q[g][i] = y
          PROVE  FALSE
      <4>1. Len(q[g]) \in Nat /\ Cell(q, g, i) = q[g][i]
        BY <1>1, CellFacts
      <4>2. i \in Nat /\ i - 1 \in Nat /\ Cell(q, g, i) = y
        BY <3>1, <4>1
      <4>3. Cell(r, g, i) = y \/ Cell(r, g, i - 1) = y
        BY <1>2, <2>2, <4>2
      <4>4. OnList(r, g, y)
        BY <4>3, CellOnList
      <4> QED
        BY <1>8, <4>4
    <3>2. \A g \in ListHeads : ~OnList(q, g, y)
      BY <3>1 DEF OnList
    <3>3. y # Cell(q, h, k - 1)
      BY <1>1, <3>2, CellOnList
    <3> QED
      BY <2>2, <3>2, <3>3 DEF Linked, Cells
  <2> QED
    BY <2>1, <2>2
<1> QED
  BY <1>6, <1>7, <1>8 DEF Linked

-----------------------------------------------------------------------------
(* The operators of LwtList enter nodes and take them out.                  *)

LEMMA AddEnters ==
  ASSUME NEW q \in [ListHeads -> Seq(Nodes)], NEW h \in ListHeads, NEW x \in Nodes
  PROVE  Entered(q, list_head_add(q, h, x), h, Len(q[h]) + 1, x)
<1>1. q[h] \in Seq(Nodes) /\ Len(q[h]) \in Nat
  BY CellFacts
<1>2. /\ Append(q[h], x) \in Seq(Nodes)
      /\ Len(Append(q[h], x)) = Len(q[h]) + 1
      /\ \A j \in 1 .. Len(q[h]) : Append(q[h], x)[j] = q[h][j]
      /\ Append(q[h], x)[Len(q[h]) + 1] = x
  BY <1>1, AppendProperties
<1>3. list_head_add(q, h, x) = [g \in ListHeads |-> IF g = h THEN Append(q[h], x) ELSE q[g]]
  BY DEF list_head_add
<1>4. ASSUME NEW j \in 1 .. Len(q[h]) + 1
      PROVE  Append(q[h], x)[j]
               = IF j < Len(q[h]) + 1 THEN q[h][j] ELSE IF j = Len(q[h]) + 1 THEN x ELSE q[h][j - 1]
  <2>1. CASE j = Len(q[h]) + 1
    BY <1>1, <1>2, <2>1
  <2>2. CASE j # Len(q[h]) + 1
    <3>1. j \in 1 .. Len(q[h]) /\ j < Len(q[h]) + 1
      BY <1>1, <2>2
    <3> QED
      BY <1>2, <3>1
  <2> QED
    BY <2>1, <2>2
<1>5. Len(q[h]) + 1 \in 1 .. Len(q[h]) + 1
  BY <1>1
<1> QED
  BY <1>2, <1>3, <1>4, <1>5 DEF Entered

\* The place list_head_append links to: in front of the last node.
LastPlace(s) == IF s = << >> THEN 1 ELSE Len(s)

LEMMA AppendEnters ==
  ASSUME NEW q \in [ListHeads -> Seq(Nodes)], NEW h \in ListHeads, NEW x \in Nodes
  PROVE  Entered(q, list_head_append(q, h, x), h, LastPlace(q[h]), x)
<1>1. q[h] \in Seq(Nodes) /\ Len(q[h]) \in Nat
  BY CellFacts
<1>2. list_head_append(q, h, x) = [g \in ListHeads |-> IF g = h THEN BeforeLast(q[h], x) ELSE q[g]]
  BY DEF list_head_append
<1>3. CASE q[h] = << >>
  <2>1. BeforeLast(q[h], x) = << x >> /\ LastPlace(q[h]) = 1 /\ Len(q[h]) = 0
    BY <1>3 DEF BeforeLast, LastPlace
  <2>2. << x >> \in Seq(Nodes) /\ Len(<< x >>) = 1 /\ << x >>[1] = x
    OBVIOUS
  <2> QED
    BY <1>2, <2>1, <2>2 DEF Entered
<1>4. CASE q[h] # << >>
  <2>1. Len(q[h]) \in 1 .. Len(q[h])
    BY <1>1, <1>4, EmptySeq
  <2>2. BeforeLast(q[h], x) = InsertAt(q[h], Len(q[h]), x) /\ LastPlace(q[h]) = Len(q[h])
    BY <1>4 DEF BeforeLast, LastPlace
  <2>3. /\ InsertAt(q[h], Len(q[h]), x) \in Seq(Nodes)
        /\ Len(InsertAt(q[h], Len(q[h]), x)) = Len(q[h]) + 1
        /\ \A j \in 1 .. Len(q[h]) + 1 :
              InsertAt(q[h], Len(q[h]), x)[j]
                = IF j < Len(q[h]) THEN q[h][j] ELSE IF j = Len(q[h]) THEN x ELSE q[h][j - 1]
    <3> DEFINE i == Len(q[h])
    <3>1. q[h] \in Seq(Nodes) /\ i \in 1 .. Len(q[h])
      BY <1>1, <2>1
    <3> HIDE DEF i
    <3>2. /\ InsertAt(q[h], i, x) \in Seq(Nodes)
          /\ Len(InsertAt(q[h], i, x)) = Len(q[h]) + 1
          /\ \A j \in 1 .. Len(q[h]) + 1 :
                InsertAt(q[h], i, x)[j] = IF j < i THEN q[h][j] ELSE IF j = i THEN x ELSE q[h][j - 1]
      BY <3>1, InsertAtElements
    <3> QED
      BY <3>2 DEF i
  <2>4. Len(q[h]) \in 1 .. Len(q[h]) + 1
    BY <2>1
  <2> QED
    BY <1>2, <2>2, <2>3, <2>4 DEF Entered
<1> QED
  BY <1>3, <1>4

\* Without x the lists are as before it was entered, and as they are when
\* it is on none.
LEMMA RemLeaves ==
  ASSUME NEW q \in [ListHeads -> Seq(Nodes)], OnePlace(q), NEW h \in ListHeads,
         NEW k \in 1 .. Len(q[h])
  PROVE  /\ list_rem(q, q[h][k]) \in [ListHeads -> Seq(Nodes)]
         /\ Entered(list_rem(q, q[h][k]), q, h, k, q[h][k])
<1> DEFINE x == q[h][k]
<1>1. q[h] \in Seq(Nodes) /\ Len(q[h]) \in Nat
  BY CellFacts
<1>2. ASSUME NEW g \in ListHeads \ {h}
      PROVE  Unlinked(q[g], x) = q[g]
  BY DEF Unlinked, OnePlace
<1>3. Unlinked(q[h], x) = RemoveAt(q[h], k)
  <2>1. \A i \in 1 .. Len(q[h]) : q[h][i] = x => i = k
    BY DEF OnePlace
  <2>2. (CHOOSE i \in 1 .. Len(q[h]) : q[h][i] = x) = k
    BY <2>1
  <2> QED
    BY <2>2 DEF Unlinked
<1>4. /\ RemoveAt(q[h], k) \in Seq(Nodes)
      /\ Len(RemoveAt(q[h], k)) = Len(q[h]) - 1
      /\ \A j \in 1 .. Len(q[h]) - 1 : RemoveAt(q[h], k)[j] = IF j < k THEN q[h][j] ELSE q[h][j + 1]
  BY <1>1, RemoveAtElements
<1>5. list_rem(q, x) = [g \in ListHeads |-> IF g = h THEN RemoveAt(q[h], k) ELSE q[g]]
  BY <1>2, <1>3 DEF list_rem
<1>6. /\ list_rem(q, x) \in [ListHeads -> Seq(Nodes)] /\ list_rem(q, x)[h] = RemoveAt(q[h], k)
      /\ \A g \in ListHeads \ {h} : q[g] = list_rem(q, x)[g]
  BY <1>4, <1>5
<1>7. ASSUME NEW j \in 1 .. Len(q[h])
      PROVE  q[h][j] = IF j < k THEN RemoveAt(q[h], k)[j] ELSE IF j = k THEN x
                       ELSE RemoveAt(q[h], k)[j - 1]
  <2>1. CASE j < k
    <3>1. j \in 1 .. Len(q[h]) - 1
      BY <1>1, <2>1
    <3> QED
      BY <1>4, <2>1, <3>1
  <2>2. CASE j = k
    BY <2>2
  <2>3. CASE j > k
    <3>1. j - 1 \in 1 .. Len(q[h]) - 1 /\ ~ (j - 1 < k) /\ j - 1 + 1 = j /\ ~ (j < k) /\ j # k
      BY <1>1, <2>3
    <3> QED
      BY <1>4, <3>1
  <2> QED
    BY <1>1, <2>1, <2>2, <2>3
<1> HIDE DEF x
<1>8. Entered(list_rem(q, x), q, h, k, x)
  <2>1. Len(q[h]) - 1 + 1 = Len(q[h])
    BY <1>1
  <2> QED
    BY <1>4, <1>6, <1>7, <2>1 DEF Entered
<1> QED
  BY <1>6, <1>8 DEF x

LEMMA RemOfUnlisted ==
  ASSUME NEW q \in [ListHeads -> Seq(Nodes)], NEW x, \A g \in ListHeads : ~OnList(q, g, x)
  PROVE  list_rem(q, x) = q
<1>1. \A g \in ListHeads : Unlinked(q[g], x) = q[g]
  BY DEF Unlinked, OnList
<1> QED
  BY <1>1 DEF list_rem

-----------------------------------------------------------------------------
(* The walk along the links meets the list.                                 *)

\* The walk exists: for no length it could be the first not to, because a
\* walk that is one step shorter can be continued.
LEMMA WalkExists ==
  ASSUME NEW D, NEW next \in [D -> D], NEW start \in D
  PROVE  \A c \in Nat : \E w : w = [i \in 0 .. c |-> IF i = 0 THEN start ELSE next[w[i - 1]]]
<1> DEFINE Is(w, c) == w = [i \in 0 .. c |-> IF i = 0 THEN start ELSE next[w[i - 1]]]
           S == {c \in Nat : ~ \E w : Is(w, c)}
<1> SUFFICES ASSUME S # {}
             PROVE  FALSE
  OBVIOUS
<1>1. PICK c \in S : \A k \in S : c <= k
  BY SmallestOf
<1>2. CASE c = 0
  <2>1. Is([i \in 0 .. 0 |-> start], 0)
    OBVIOUS
  <2> QED
    BY <1>1, <1>2, <2>1
<1>3. CASE c # 0
  <2>1. c - 1 \in Nat /\ c - 1 \notin S
    <3>1. c \in Nat
      BY <1>1
    <3> HIDE DEF S
    <3> QED
      BY <1>1, <1>3, <3>1
  <2>2. PICK w : Is(w, c - 1)
    BY <2>1
  <2> DEFINE v == [i \in 0 .. c |-> IF i < c THEN w[i] ELSE next[w[c - 1]]]
  <2>3. \A i \in 0 .. c : v[i] = IF i = 0 THEN start ELSE next[v[i - 1]]
    <3>1. w = [i \in 0 .. c - 1 |-> IF i = 0 THEN start ELSE next[w[i - 1]]]
      BY <2>2
    <3>2. \A i \in 0 .. c - 1 : w[i] = IF i = 0 THEN start ELSE next[w[i - 1]]
      BY <3>1
    <3>3. \A i \in 0 .. c : v[i] = IF i < c THEN w[i] ELSE next[w[c - 1]]
      OBVIOUS
    <3> HIDE DEF v
    <3>4. c \in Nat /\ c # 0
      BY <1>1, <1>3
    <3> SUFFICES ASSUME NEW i \in 0 .. c
                 PROVE  v[i] = IF i = 0 THEN start ELSE next[v[i - 1]]
      OBVIOUS
    <3>5. CASE i = 0
      BY <3>2, <3>3, <3>4, <3>5
    <3>6. CASE i # 0
      <4>1. i - 1 \in 0 .. c /\ i - 1 < c /\ v[i - 1] = w[i - 1]
        BY <3>3, <3>4, <3>6
      <4>2. CASE i = c
        BY <3>3, <3>4, <3>6, <4>1, <4>2
      <4>3. CASE i # c
        <5>1. i \in 0 .. c - 1 /\ v[i] = w[i]
          BY <3>3, <3>4, <4>3
        <5> QED
          BY <3>2, <3>6, <4>1, <5>1
      <4> QED
        BY <4>2, <4>3
    <3> QED
      BY <3>5, <3>6
  <2>4. Is(v, c)
    <3>1. v = [i \in 0 .. c |-> v[i]]
      OBVIOUS
    <3> HIDE DEF v
    <3> QED
      BY <2>3, <3>1
  <2> QED
    BY <1>1, <2>4
<1> QED
  BY <1>2, <1>3

\* A list has no more places than there are nodes.
LEMMA ListFits ==
  ASSUME NEW q \in [ListHeads -> Seq(Nodes)], OnePlace(q), NEW h \in ListHeads
  PROVE  Cardinality(Nodes) \in Nat /\ Len(q[h]) <= Cardinality(Nodes)
<1> DEFINE s == q[h]
           L == Len(q[h])
<1>1. Cardinality(Nodes) \in Nat
  BY LinksAssumption, FS_CardinalityType
<1>2. s \in Seq(Nodes) /\ L \in Nat /\ \A i \in 1 .. L : s[i] \in Nodes
  BY CellFacts
<1>3. \A i, j \in 1 .. L : s[i] = s[j] => i = j
  BY DEF OnePlace
<1>4. s \in [1 .. L -> Nodes]
  BY <1>2
<1> HIDE DEF s, L
<1>5. IsFiniteSet(1 .. L) /\ Cardinality(1 .. L) = L
  <2>1. 1 \in Int /\ L \in Int
    BY <1>2
  <2>2. IsFiniteSet(1 .. L) /\ Cardinality(1 .. L) = IF 1 > L THEN 0 ELSE L - 1 + 1
    BY <2>1, FS_Interval
  <2> QED
    BY <1>2, <2>2
<1>6. ~ (Cardinality(Nodes) < Cardinality(1 .. L))
  <2> SUFFICES ASSUME Cardinality(Nodes) < Cardinality(1 .. L)
               PROVE  FALSE
    OBVIOUS
  <2>1. \E i, j \in 1 .. L : i # j /\ s[i] = s[j]
    <3> DEFINE D == 1 .. L
    <3>1. IsFiniteSet(D) /\ Cardinality(Nodes) < Cardinality(D) /\ s \in [D -> Nodes] /\ IsFiniteSet(Nodes)
      BY <1>4, <1>5, LinksAssumption
    <3> HIDE DEF D
    <3>2. \E i, j \in D : i # j /\ s[i] = s[j]
      BY <3>1, FS_PigeonHole
    <3> QED
      BY <3>2 DEF D
  <2> QED
    BY <1>3, <2>1
<1> QED
  BY <1>1, <1>2, <1>5, <1>6 DEF L

\* The nodes list_foreach meets from h on are those of its list, in order.
LEMMA WalkIsList ==
  ASSUME NEW f \in [Cells -> Cells], NEW q, Linked(f, q), NEW h \in ListHeads
  PROVE  Walk(f, h) = q[h]
<1> DEFINE s == q[h]
           L == Len(q[h])
           c == Cardinality(Nodes) + 1
           Is(w) == w = [i \in 0 .. c |-> IF i = 0 THEN h ELSE f[w[i - 1]]]
           Step == CHOOSE w : Is(w)
           Ends(i) == Step[i + 1] = h /\ \A j \in 1 .. i : Step[j] # h
           Length == CHOOSE i \in 0 .. Cardinality(Nodes) : Ends(i)
<1>1. q \in [ListHeads -> Seq(Nodes)] /\ OnePlace(q)
  BY DEF Linked
<1>2. /\ s \in Seq(Nodes) /\ L \in Nat
      /\ \A i \in 1 .. L : s[i] \in Nodes /\ Cell(q, h, i) = s[i]
      /\ \A i : i \notin 1 .. L => Cell(q, h, i) = h
  BY <1>1, CellFacts
<1>3. Cardinality(Nodes) \in Nat /\ L <= Cardinality(Nodes)
  BY <1>1, ListFits
<1>4. Walk(f, h) = [i \in 1 .. Length |-> Step[i]]
  BY DEF Walk
<1>5. Is(Step)
  <2>1. h \in Cells /\ c \in Nat
    BY <1>3 DEF Cells
  <2> HIDE DEF c
  <2>2. \E w : Is(w)
    BY <2>1, WalkExists
  <2> HIDE DEF Is
  <2> QED
    BY <2>2
<1> HIDE DEF Step
<1>6. \A i \in 0 .. c : Step[i] = IF i = 0 THEN h ELSE f[Step[i - 1]]
  <2>1. Step = [i \in 0 .. c |-> IF i = 0 THEN h ELSE f[Step[i - 1]]]
    BY <1>5
  <2> QED
    BY <2>1
<1>7. \A i \in 0 .. L + 1 : Step[i] = Cell(q, h, i)
  <2> DEFINE T == {i \in 0 .. L + 1 : Step[i] # Cell(q, h, i)}
  <2> SUFFICES ASSUME T # {}
               PROVE  FALSE
    OBVIOUS
  <2>1. T \in SUBSET Nat
    OBVIOUS
  <2>2. PICK i \in T : \A k \in T : i <= k
    BY <2>1, SmallestOf
  <2>3. i \in 0 .. L + 1 /\ Step[i] # Cell(q, h, i)
    OBVIOUS
  <2>4. i # 0
    <3>1. 0 \in 0 .. c /\ Cell(q, h, 0) = h
      BY <1>2, <1>3
    <3>2. Step[0] = h
      BY <1>6, <3>1
    <3> QED
      BY <2>3, <3>1, <3>2
  <2>5. i - 1 \in 0 .. L /\ i - 1 \in 0 .. L + 1 /\ i \in 0 .. c /\ i - 1 + 1 = i /\ ~ (i <= i - 1)
    BY <1>2, <1>3, <2>3, <2>4
  <2>6. i - 1 \notin T
    <3> HIDE DEF T
    <3> QED
      BY <2>2, <2>5
  <2>7. Step[i - 1] = Cell(q, h, i - 1)
    BY <2>5, <2>6
  <2>8. Step[i] = f[Step[i - 1]]
    BY <1>6, <2>4, <2>5
  <2>9. f[Cell(q, h, i - 1)] = Cell(q, h, i - 1 + 1)
    BY <2>5 DEF Linked
  <2> QED
    BY <2>3, <2>5, <2>7, <2>8, <2>9
<1>8. Ends(L)
  <2>1. Step[L + 1] = h
    BY <1>2, <1>7
  <2>2. \A j \in 1 .. L : Step[j] # h
    BY <1>2, <1>7, LinksAssumption
  <2> QED
    BY <2>1, <2>2
<1>9. ASSUME NEW i \in 0 .. Cardinality(Nodes), Ends(i)
      PROVE  i = L
  <2>1. CASE i < L
    <3>1. i + 1 \in 1 .. L
      BY <1>2, <2>1
    <3> QED
      BY <1>8, <1>9, <3>1
  <2>2. CASE i > L
    <3>1. L + 1 \in 1 .. i
      BY <1>2, <2>2
    <3> QED
      BY <1>8, <1>9, <3>1
  <2> QED
    BY <1>2, <1>3, <2>1, <2>2
<1>10. Length = L
  <2>1. L \in 0 .. Cardinality(Nodes)
    BY <1>2, <1>3
  <2> HIDE DEF Ends, L
  <2> QED
    BY <1>8, <1>9, <2>1
<1>11. \A i \in 1 .. L : Step[i] = s[i]
  BY <1>2, <1>7
<1>12. s = [i \in 1 .. L |-> s[i]]
  BY <1>2
<1> HIDE DEF s, L, Length
<1> QED
  BY <1>4, <1>10, <1>11, <1>12 DEF s

-----------------------------------------------------------------------------
(* Every step on the links is the step on the lists.                        *)

\* What the walks meet is what the links stand for.
ListsInv == LinksInv /\ Linked(n, Lists)

\* Lists that the links stand for are the lists the walks meet.
LEMMA WalksMeetLists ==
  ASSUME NEW f \in [Cells -> Cells], NEW q, Linked(f, q)
  PROVE  [h \in ListHeads |-> Walk(f, h)] = q
<1>1. q \in [ListHeads -> Seq(Nodes)]
  BY DEF Linked
<1>2. \A h \in ListHeads : Walk(f, h) = q[h]
  BY WalkIsList
<1> QED
  BY <1>1, <1>2

\* p leads back from each cell of a list to the one before.
LEMMA CellBefore ==
  ASSUME LinksInv, NEW q, Linked(n, q), NEW h \in ListHeads, NEW k \in 1 .. Len(q[h]) + 1
  PROVE  p[Cell(q, h, k)] = Cell(q, h, k - 1)
<1>1. q \in [ListHeads -> Seq(Nodes)] /\ Len(q[h]) \in Nat
  BY CellFacts DEF Linked
<1>2. k - 1 \in 0 .. Len(q[h]) /\ k - 1 + 1 = k
  BY <1>1
<1>3. n[Cell(q, h, k - 1)] = Cell(q, h, k)
  BY <1>2 DEF Linked
<1>4. Cell(q, h, k - 1) \in Cells
  BY <1>1, CellFacts
<1> QED
  BY <1>3, <1>4 DEF LinksInv, WalksInverse

\* list_ll_add in front of a cell enters the node at its place.
LEMMA AddIsEnter ==
  ASSUME LinksInv, NEW q, Linked(n, q), NEW h \in ListHeads, NEW x \in Nodes, Alone(x),
         NEW k, NEW r, Entered(q, r, h, k, x), list_ll_add(Cell(q, h, k), x)
  PROVE  Linked(n', r)
<1>1. q \in [ListHeads -> Seq(Nodes)] /\ k \in 1 .. Len(q[h]) + 1 /\ Len(q[h]) \in Nat
  BY CellFacts DEF Linked, Entered
<1>2. \A g \in ListHeads : ~OnList(q, g, x)
  BY AloneIsUnlisted DEF Alone
<1> DEFINE link == Cell(q, h, k)
           before == Cell(q, h, k - 1)
<1>3. p[link] = before
  BY <1>1, CellBefore
<1>4. link \in Cells /\ before \in Cells /\ x \in Cells
  BY <1>1, CellFacts DEF Cells
<1>5. before # x
  BY <1>1, <1>2, CellOnList
<1> HIDE DEF link, before
<1>6. n' = [[n EXCEPT ![x] = link] EXCEPT ![before] = x]
  <2>1. [p EXCEPT ![x] = p[link]][x] = p[link]
    BY <1>4 DEF LinksInv, LinksTypeOK
  <2> QED
    BY <1>3, <2>1 DEF list_ll_add, Assign, link
<1>7. n' = [a \in Cells |-> IF a = before THEN x ELSE IF a = x THEN link ELSE n[a]]
  BY <1>4, <1>6 DEF LinksInv, LinksTypeOK
<1>8. /\ n'[x] = link /\ n'[before] = x
      /\ \A a \in Cells : a # x /\ a # before => n'[a] = n[a]
  BY <1>4, <1>5, <1>7
<1> QED
  BY <1>2, <1>8, EnterKeepsLinked DEF link, before

\* list_ll_rem of a listed node takes it out of its list.
LEMMA RemIsLeave ==
  ASSUME LinksInv, NEW q, Linked(n, q), NEW x \in Nodes, list_ll_rem(x)
  PROVE  Linked(n', list_rem(q, x))
<1>1. q \in [ListHeads -> Seq(Nodes)] /\ OnePlace(q)
  BY DEF Linked
<1>2. x \in Cells /\ n[x] \in Cells /\ p[x] \in Cells /\ p[n[x]] = x /\ n[p[x]] = x
  BY DEF Cells, LinksInv, LinksTypeOK, WalksInverse
<1>3. CASE n[x] = x
  <2>1. \A g \in ListHeads : ~OnList(q, g, x)
    BY <1>3, AloneIsUnlisted
  <2>2. list_rem(q, x) = q
    BY <1>1, <2>1, RemOfUnlisted
  <2>3. p[x] = x
    BY <1>2, <1>3
  <2>4. [p EXCEPT ![n[x]] = p[x]] = p
    BY <1>3, <2>3 DEF LinksInv, LinksTypeOK
  <2>5. n' = n
    BY <1>2, <1>3, <2>3, <2>4 DEF list_ll_rem, Assign, LinksInv, LinksTypeOK
  <2> QED
    BY <2>2, <2>5
<1>4. CASE n[x] # x
  <2>0. PICK h \in ListHeads : OnList(q, h, x)
    BY <1>4 DEF Linked
  <2>1. PICK k \in 1 .. Len(q[h]) : q[h][k] = x
    BY <2>0 DEF OnList
  <2>2. Len(q[h]) \in Nat /\ k \in 1 .. Len(q[h]) + 1 /\ Cell(q, h, k) = x
    BY <1>1, <2>1, CellFacts
  <2> DEFINE r == list_rem(q, x)
             before == Cell(q, h, k - 1)
  <2>3. r \in [ListHeads -> Seq(Nodes)] /\ Entered(r, q, h, k, x)
    BY <1>1, <2>1, RemLeaves
  <2>4. p[x] = before
    <3>1. p[Cell(q, h, k)] = Cell(q, h, k - 1)
      BY <2>2, CellBefore
    <3> QED
      BY <2>2, <3>1
  <2> HIDE DEF r, before
  <2>5. before # x
    BY <1>2, <1>4, <2>4
  <2>6. [p EXCEPT ![n[x]] = p[x]][x] = p[x]
    BY <1>2, <1>4 DEF LinksInv, LinksTypeOK
  <2>7. n' = [a \in Cells |-> IF a = x THEN x ELSE IF a = before THEN n[x] ELSE n[a]]
    BY <1>2, <1>4, <2>4, <2>6 DEF list_ll_rem, Assign, LinksInv, LinksTypeOK
  <2>8. /\ n'[x] = x /\ n'[before] = n[x]
        /\ \A a \in Cells : a # x /\ a # before => n'[a] = n[a]
    BY <1>2, <2>4, <2>5, <2>7
  <2>9. Linked(n', r)
    BY <2>3, <2>8, LeaveKeepsLinked DEF before
  <2> QED
    BY <2>9 DEF r
<1> QED
  BY <1>3, <1>4

LEMMA AddLastLists ==
  ASSUME ListsInv, NEW h \in ListHeads, NEW x \in Nodes, AddLast(h, x)
  PROVE  ListsInv' /\ Lists' = list_head_add(Lists, h, x)
<1> DEFINE q == Lists
           r == list_head_add(q, h, x)
           k == Len(q[h]) + 1
<1>1. LinksInv /\ Linked(n, q) /\ q \in [ListHeads -> Seq(Nodes)]
  BY DEF ListsInv, Linked
<1>2. LinksInv'
  BY <1>1, AddKeepsInverse DEF AddLast, Cells
<1>3. Cell(q, h, k) = h
  <2>1. k \notin 1 .. Len(q[h])
    BY <1>1, CellFacts
  <2> QED
    BY <2>1 DEF Cell
<1> HIDE DEF q
<1>4. Entered(q, r, h, k, x)
  BY <1>1, AddEnters
<1> HIDE DEF r, k
<1>5. Linked(n', r)
  <2>1. Alone(x) /\ list_ll_add(Cell(q, h, k), x)
    BY <1>3 DEF AddLast
  <2> QED
    BY <1>1, <1>4, <2>1, AddIsEnter
<1>6. Lists' = r
  <2>1. n' \in [Cells -> Cells]
    BY <1>2 DEF LinksInv, LinksTypeOK
  <2>2. [g \in ListHeads |-> Walk(n', g)] = r
    BY <1>5, <2>1, WalksMeetLists
  <2> QED
    BY <2>2 DEF Lists
<1> QED
  BY <1>2, <1>5, <1>6 DEF ListsInv, r, q

LEMMA AddBeforeLastLists ==
  ASSUME ListsInv, NEW h \in ListHeads, NEW x \in Nodes, AddBeforeLast(h, x)
  PROVE  ListsInv' /\ Lists' = list_head_append(Lists, h, x)
<1> DEFINE q == Lists
           r == list_head_append(q, h, x)
           k == LastPlace(q[h])
<1>1. LinksInv /\ Linked(n, q) /\ q \in [ListHeads -> Seq(Nodes)]
  BY DEF ListsInv, Linked
<1>2. LinksInv'
  <2>1. p[h] \in Cells /\ x \in Cells
    BY <1>1 DEF LinksInv, LinksTypeOK, Cells
  <2> QED
    BY <1>1, <2>1, AddKeepsInverse DEF AddBeforeLast
<1> HIDE DEF q
<1>3. Cell(q, h, k) = p[h]
  <2>1. Len(q[h]) \in Nat /\ q[h] \in Seq(Nodes) /\ (\A i : i \notin 1 .. Len(q[h]) => Cell(q, h, i) = h)
    BY <1>1, CellFacts
  <2>2. Len(q[h]) + 1 \in 1 .. Len(q[h]) + 1 /\ Len(q[h]) + 1 - 1 = Len(q[h])
    BY <2>1
  <2>3. p[Cell(q, h, Len(q[h]) + 1)] = Cell(q, h, Len(q[h]))
    BY <1>1, <2>2, CellBefore
  <2>4. Cell(q, h, Len(q[h]) + 1) = h
    BY <2>1
  <2>5. CASE q[h] = << >>
    <3>1. k = 1 /\ Len(q[h]) = 0
      BY <2>5 DEF LastPlace
    <3> QED
      BY <2>1, <2>3, <2>4, <3>1
  <2>6. CASE q[h] # << >>
    BY <2>3, <2>4, <2>6 DEF LastPlace
  <2> QED
    BY <2>5, <2>6
<1>4. Entered(q, r, h, k, x)
  BY <1>1, AppendEnters
<1> HIDE DEF r, k
<1>5. Linked(n', r)
  <2>1. Alone(x) /\ list_ll_add(Cell(q, h, k), x)
    BY <1>3 DEF AddBeforeLast
  <2> QED
    BY <1>1, <1>4, <2>1, AddIsEnter
<1>6. Lists' = r
  <2>1. n' \in [Cells -> Cells]
    BY <1>2 DEF LinksInv, LinksTypeOK
  <2>2. [g \in ListHeads |-> Walk(n', g)] = r
    BY <1>5, <2>1, WalksMeetLists
  <2> QED
    BY <2>2 DEF Lists
<1> QED
  BY <1>2, <1>5, <1>6 DEF ListsInv, r, q

LEMMA RemLists ==
  ASSUME ListsInv, NEW x \in Nodes, list_ll_rem(x)
  PROVE  ListsInv' /\ Lists' = list_rem(Lists, x)
<1> DEFINE q == Lists
           r == list_rem(q, x)
<1>1. LinksInv /\ Linked(n, q)
  BY DEF ListsInv
<1>2. LinksInv'
  BY <1>1, RemKeepsInverse DEF Cells
<1> HIDE DEF q
<1>3. Linked(n', r)
  BY <1>1, RemIsLeave
<1> HIDE DEF r
<1>4. Lists' = r
  <2>1. n' \in [Cells -> Cells]
    BY <1>2 DEF LinksInv, LinksTypeOK
  <2>2. [g \in ListHeads |-> Walk(n', g)] = r
    BY <1>3, <2>1, WalksMeetLists
  <2> QED
    BY <2>2 DEF Lists
<1> QED
  BY <1>2, <1>3, <1>4 DEF ListsInv, r, q

\* Before anything is linked the lists are empty.
LEMMA InitLists ==
  ASSUME LinksInit
  PROVE  ListsInv
<1> DEFINE q == [h \in ListHeads |-> << >>]
<1>1. LinksInv
  BY DEF LinksInit, LinksInv, LinksTypeOK, WalksInverse
<1>2. q \in [ListHeads -> Seq(Nodes)] /\ \A h \in ListHeads : Len(q[h]) = 0
  OBVIOUS
<1>3. Linked(n, q)
  <2>1. OnePlace(q)
    BY <1>2 DEF OnePlace
  <2>2. \A h \in ListHeads : \A i \in 0 .. Len(q[h]) : n[Cell(q, h, i)] = Cell(q, h, i + 1)
    BY <1>2 DEF LinksInit, Cell, Cells
  <2>3. \A x \in Nodes : n[x] = x
    BY DEF LinksInit, Cells
  <2> QED
    BY <1>2, <2>1, <2>2, <2>3 DEF Linked
<1> HIDE DEF q
<1>4. Lists = q
  <2>1. n \in [Cells -> Cells]
    BY <1>1 DEF LinksInv, LinksTypeOK
  <2>2. [h \in ListHeads |-> Walk(n, h)] = q
    BY <1>3, <2>1, WalksMeetLists
  <2> QED
    BY <2>2 DEF Lists
<1> QED
  BY <1>1, <1>3, <1>4 DEF ListsInv

\* The pointer code implements the sequences of LwtList: what list_foreach
\* meets after list_head_add, list_head_append and list_rem is what the
\* operators of these names say, for every list and any number of nodes.
THEOREM LinksAreLists == LinksSpec => LinksImplementLists
<1> DEFINE Steps == /\ \A h \in ListHeads, x \in Nodes :
                         /\ AddLast(h, x) => Lists' = list_head_add(Lists, h, x)
                         /\ AddBeforeLast(h, x) => Lists' = list_head_append(Lists, h, x)
                    /\ \A x \in Nodes : list_ll_rem(x) => Lists' = list_rem(Lists, x)
<1>1. LinksInit => ListsInv
  BY InitLists
<1>2. ListsInv /\ [LinksNext]_links => ListsInv'
  <2> SUFFICES ASSUME ListsInv, [LinksNext]_links  PROVE ListsInv'
    OBVIOUS
  <2>1. ASSUME NEW h \in ListHeads, NEW x \in Nodes, AddLast(h, x)  PROVE ListsInv'
    BY <2>1, AddLastLists
  <2>2. ASSUME NEW h \in ListHeads, NEW x \in Nodes, AddBeforeLast(h, x)  PROVE ListsInv'
    BY <2>2, AddBeforeLastLists
  <2>3. ASSUME NEW x \in Nodes, list_ll_rem(x)  PROVE ListsInv'
    BY <2>3, RemLists
  <2>4. CASE UNCHANGED links
    <3>1. n' = n /\ p' = p
      BY <2>4 DEF links
    <3>2. Lists' = Lists
      BY <3>1 DEF Lists
    <3>3. LinksInv'
      BY <3>1 DEF ListsInv, LinksInv, LinksTypeOK, WalksInverse
    <3> QED
      BY <3>1, <3>2, <3>3 DEF ListsInv
  <2> QED
    BY <2>1, <2>2, <2>3, <2>4 DEF LinksNext
<1>3. ListsInv /\ [LinksNext]_links => [Steps]_links
  <2> SUFFICES ASSUME ListsInv  PROVE Steps
    OBVIOUS
  <2>1. ASSUME NEW h \in ListHeads, NEW x \in Nodes
        PROVE  /\ AddLast(h, x) => Lists' = list_head_add(Lists, h, x)
               /\ AddBeforeLast(h, x) => Lists' = list_head_append(Lists, h, x)
    BY AddLastLists, AddBeforeLastLists
  <2>2. ASSUME NEW x \in Nodes, list_ll_rem(x)  PROVE Lists' = list_rem(Lists, x)
    BY <2>2, RemLists
  <2> QED
    BY <2>1, <2>2
<1>4. [][Steps]_links <=> LinksImplementLists
  BY DEF LinksImplementLists
<1> HIDE DEF Steps
<1> QED
  BY <1>1, <1>2, <1>3, <1>4, PTL DEF LinksSpec
=============================================================================
