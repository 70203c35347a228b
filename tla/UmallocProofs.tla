---------------------------- MODULE UmallocProofs ----------------------------
(***************************************************************************)
(* For every page size, number of pages and set of requests: until pages   *)
(* run out the units under management lie in the pages taken; always, none *)
(* of them is lost or in two blocks, no free block touches another, and    *)
(* the list is an allocator.                                               *)
(*                                                                         *)
(* ufree and umalloc follow ptr from freep until a condition holds. That   *)
(* they meet every block is proved without an induction rule: a statement  *)
(* about all numbers of steps is refuted at the smallest for which it      *)
(* fails (SmallestOf), and a search longer than the list passes a node     *)
(* twice, so what lies in between is closed and is the whole ring.         *)
(***************************************************************************)
EXTENDS Umalloc, FiniteSetTheorems, WellFoundedInduction, TLAPS

-----------------------------------------------------------------------------
(* Pages.                                                                   *)

\* The pages taken for a request of u units hold u units.
LEMMA PagesSuffice ==
  ASSUME NEW u \in Nat
  PROVE  /\ PagesFor(u) \in Nat
         /\ u <= PageUnits * PagesFor(u)
<1>1. u \div PageUnits \in Nat /\ u % PageUnits \in 0 .. PageUnits - 1
      /\ u = PageUnits * (u \div PageUnits) + (u % PageUnits)
  BY PageAssumption
<1>2. PageUnits * (1 + u \div PageUnits) = PageUnits + PageUnits * (u \div PageUnits)
  BY <1>1, PageAssumption
<1> QED
  BY <1>1, <1>2, PageAssumption DEF PagesFor

\* A request, of no bytes too, is for some number of units, and the biggest
\* request for most.
LEMMA RequestUnits ==
  ASSUME NEW nbytes \in Requests
  PROVE  nunits(nbytes) \in Nat \ {0} /\ nunits(nbytes) <= nunits(MaxBytes)
<1>1. nbytes \in Nat /\ MaxBytes \in Nat /\ nbytes <= MaxBytes
  BY RequestAssumption
<1>2. /\ (nbytes + 8 - 1) \div 8 \in Nat
      /\ (nbytes + 8 - 1) \div 8 <= (MaxBytes + 8 - 1) \div 8
  BY <1>1
<1> QED
  BY <1>1, <1>2 DEF nunits, HeaderBytes

\* The addresses are an interval of numbers.
LEMMA AddrTyped ==
  /\ LastUnit \in Nat /\ nunits(MaxBytes) \in Nat
  /\ Addr = 0 .. LastUnit
  /\ Addr \subseteq Nat /\ IsFiniteSet(Addr) /\ base \in Addr
<1>1. PageUnits * (MaxPages + 1) \in Nat
  BY PageAssumption
<1>2. nunits(MaxBytes) \in Nat
  BY RequestAssumption DEF nunits, HeaderBytes
<1>3. LastUnit \in Nat
  BY <1>1, <1>2 DEF LastUnit
<1>4. IsFiniteSet(0 .. LastUnit)
  BY <1>3, FS_Interval
<1> QED
  BY <1>2, <1>3, <1>4 DEF Addr, base

\* What lies in the first k pages, and what a request reaches behind them,
\* lies in memory.
LEMMA PagesBelow ==
  ASSUME NEW k \in Nat, k <= MaxPages
  PROVE  /\ PageUnits * (k + 1) \in Nat
         /\ \A x \in Nat : x < PageUnits * (k + 1) + nunits(MaxBytes) => x \in Addr
<1>1. PageUnits \in Nat /\ MaxPages \in Nat
  BY PageAssumption
<1>2. PICK d \in Nat : MaxPages = k + d
  <2>1. MaxPages - k \in Nat /\ MaxPages = k + (MaxPages - k)
    BY <1>1
  <2> QED
    BY <2>1
<1>3. PageUnits * (MaxPages + 1) = PageUnits * (k + 1) + PageUnits * d
  <2>1. \A i, j \in Nat : PageUnits * (i + j) = PageUnits * i + PageUnits * j
    BY <1>1
  <2>2. MaxPages + 1 = (k + 1) + d /\ k + 1 \in Nat
    BY <1>1, <1>2
  <2> QED
    BY <2>1, <2>2
<1> DEFINE lo == PageUnits * (k + 1)
           hi == PageUnits * (MaxPages + 1)
           r == nunits(MaxBytes)
<1>4. lo \in Nat /\ hi \in Nat /\ r \in Nat /\ lo <= hi
  <2>1. PageUnits * (k + 1) \in Nat /\ PageUnits * d \in Nat
    BY <1>1
  <2> QED
    BY <1>3, <2>1, AddrTyped
<1>5. Addr = 0 .. (hi + r)
  BY DEF Addr, LastUnit
<1> HIDE DEF lo, hi, r
<1>6. \A x \in Nat : x < lo + r => x \in Addr
  BY <1>4, <1>5
<1> QED
  BY <1>4, <1>6 DEF lo, r

\* pages counts pages, which makes InsideUntilExhausted inductive; what is in
\* the list lies in memory.
PagesInv ==
  /\ pages \in Nat /\ pages <= MaxPages
  /\ core \subseteq Addr /\ InsideUntilExhausted

\* Pages are taken up to the last one.
LEMMA BumpedPages ==
  ASSUME PagesInv, NEW k \in Nat
  PROVE  /\ Bumped(k) \in Nat /\ Bumped(k) <= MaxPages /\ pages <= Bumped(k)
         /\ Bumped(k) < MaxPages => Bumped(k) = pages + k
  BY PageAssumption DEF Bumped, PagesInv

\* The units that a request brings lie in memory, and inside the pages while
\* there are more: the number of pages is rounded up, also for a request of
\* full pages.
LEMMA AllocateInside ==
  ASSUME PagesInv, NEW nbytes \in Requests, umalloc(nbytes)
  PROVE  PagesInv'
<1> DEFINE u == nunits(nbytes)
<1>1. u \in Nat /\ u <= nunits(MaxBytes)
  BY RequestUnits
<1>2. CASE UNCHANGED << pages, core >>
  BY <1>2 DEF PagesInv, InsideUntilExhausted, InsidePages
<1>3. CASE /\ pages < MaxPages
           /\ pages' = Bumped(PagesFor(u))
           /\ core' = core \union Units(PageAt(pages), u)
  <2> DEFINE lo == PageUnits * (pages + 1)
             r == nunits(MaxBytes)
  <2>1. /\ PagesFor(u) \in Nat /\ u <= PageUnits * PagesFor(u)
    BY <1>1, PagesSuffice
  <2>2. /\ pages \in Nat /\ pages <= MaxPages /\ PageUnits \in Nat \ {0} /\ MaxPages \in Nat
        /\ r \in Nat
    BY PageAssumption, AddrTyped DEF PagesInv
  <2>3. /\ pages' \in Nat /\ pages' <= MaxPages
        /\ pages' < MaxPages => pages' = pages + PagesFor(u)
    BY <1>3, <2>1, BumpedPages
  <2>4. lo \in Nat /\ PageUnits <= lo /\ \A x \in Nat : x < lo + r => x \in Addr
    <3>1. \A x \in Nat : x < PageUnits * (pages + 1) + nunits(MaxBytes) => x \in Addr
      BY <2>2, PagesBelow
    <3> QED
      BY <2>2, <3>1
  <2>5. Units(PageAt(pages), u) = lo .. (lo + u - 1)
    BY DEF Units, PageAt
  <2> HIDE DEF lo, r
  <2>6. \A x \in Units(PageAt(pages), u) : x \in Nat /\ lo <= x /\ x < lo + u
    BY <1>1, <2>4, <2>5
  <2>7. core' \subseteq Addr
    <3>1. \A x \in Nat : x < lo + u => x < lo + r
      BY <1>1, <2>2, <2>4 DEF r
    <3> QED
      BY <1>3, <2>4, <2>6, <3>1 DEF PagesInv
  <2>8. ASSUME pages' < MaxPages, NEW x \in core'
        PROVE  x \in PageUnits .. (PageUnits * (pages' + 1) - 1)
    <3> DEFINE m == PageUnits * PagesFor(u)
    <3>1. PageUnits * (pages' + 1) = lo + m /\ m \in Nat /\ u <= m
      BY <2>1, <2>2, <2>3, <2>8 DEF lo
    <3>2. CASE x \in core
      <4>1. x \in PageUnits .. (lo - 1)
        BY <1>3, <3>2 DEF PagesInv, InsideUntilExhausted, InsidePages, lo
      <4> HIDE DEF m
      <4> QED
        BY <2>2, <2>4, <3>1, <4>1
    <3>3. CASE x \in Units(PageAt(pages), u)
      <4> HIDE DEF m
      <4> QED
        BY <1>1, <2>2, <2>4, <2>6, <3>1, <3>3
    <3> QED
      BY <1>3, <2>8, <3>2, <3>3
  <2> QED
    BY <2>3, <2>7, <2>8 DEF PagesInv, InsideUntilExhausted, InsidePages
<1> QED
  BY <1>2, <1>3 DEF umalloc

\* Whatever is allocated and freed, and for every page size: as long as
\* cos_page_bump_alloc has pages to give, the units under management are units
\* of pages it has given.
THEOREM ManagedInsidePages == Spec => []InsideUntilExhausted
<1>1. Init => PagesInv
  BY PageAssumption DEF Init, PagesInv, InsideUntilExhausted, InsidePages
<1>2. PagesInv /\ [Next]_vars => PagesInv'
  <2> SUFFICES ASSUME PagesInv, [Next]_vars
               PROVE  PagesInv'
    OBVIOUS
  <2>1. CASE UNCHANGED vars
    BY <2>1 DEF vars, PagesInv, InsideUntilExhausted, InsidePages
  <2>2. ASSUME NEW nbytes \in Requests, umalloc(nbytes)
        PROVE  PagesInv'
    BY <2>2, AllocateInside
  <2>3. ASSUME NEW nbytes \in Requests, umalloc_Fails(nbytes)
        PROVE  PagesInv'
    BY <2>3 DEF umalloc_Fails, PagesInv, InsideUntilExhausted, InsidePages
  <2>4. ASSUME NEW bp \in DOMAIN held, ufree(bp)
        PROVE  PagesInv'
    BY <2>4 DEF ufree, PagesInv, InsideUntilExhausted, InsidePages
  <2> QED
    BY <2>1, <2>2, <2>3, <2>4 DEF Next
<1>3. PagesInv => InsideUntilExhausted
  BY DEF PagesInv
<1> QED
  BY <1>1, <1>2, <1>3, PTL DEF Spec

-----------------------------------------------------------------------------
(* Numbers.                                                                 *)

\* Every set of numbers has a smallest: with this fact in the place of an
\* induction rule, a statement about all numbers is proved at the smallest
\* number it would not hold of.
LEMMA SmallestOf ==
  ASSUME NEW S \in SUBSET Nat, S # {}
  PROVE  \E m \in S : \A k \in S : m <= k
<1>1. IsWellFoundedOn(OpToRel(<, Nat), Nat)
  BY NatLessThanWellFounded
<1>2. PICK m \in S : \A k \in S : ~ (<< k, m >> \in OpToRel(<, Nat))
  BY <1>1, WFMin
<1>3. \A k \in S : << k, m >> \in Nat \X Nat => ~ (k < m)
  BY <1>2 DEF OpToRel
<1>4. ASSUME NEW k \in S
      PROVE  m <= k
  <2>1. k \in Nat /\ m \in Nat /\ ~ (k < m)
    BY <1>3
  <2> QED
    BY <2>1
<1> QED
  BY <1>4

\* A set with an upper bound has a largest.
LEMMA LargestOf ==
  ASSUME NEW N \in Nat, NEW S \in SUBSET (0 .. N), S # {}
  PROVE  \E m \in S : \A k \in S : k <= m
<1> DEFINE T == {i \in 0 .. N : N - i \in S}
<1>1. PICK s \in S : TRUE
  OBVIOUS
<1>2. N - s \in T /\ T \in SUBSET Nat
  BY <1>1
<1>3. PICK i \in T : \A k \in T : i <= k
  BY <1>2, SmallestOf
<1>4. \A k \in S : N - k \in T
  OBVIOUS
<1> QED
  BY <1>3, <1>4

\* Min is a CHOOSE, of a number that is there.
LEMMA MinOf ==
  ASSUME NEW S \in SUBSET Nat, S # {}
  PROVE  Min(S) \in S
  BY SmallestOf DEF Min

-----------------------------------------------------------------------------
(* Walks.                                                                   *)

\* The function Walk is defined by exists: for no length it could be the first
\* not to, because a walk that is one step shorter can be continued.
LEMMA WalkExists ==
  ASSUME NEW D, NEW next \in [D -> D], NEW start \in D
  PROVE  \A c \in Nat : \E w : w = [n \in 0 .. c |-> IF n = 0 THEN start ELSE next[w[n - 1]]]
<1> DEFINE Is(w, c) == w = [n \in 0 .. c |-> IF n = 0 THEN start ELSE next[w[n - 1]]]
           S == {c \in Nat : ~ \E w : Is(w, c)}
<1> SUFFICES ASSUME S # {}
             PROVE  FALSE
  OBVIOUS
<1>1. PICK c \in S : \A k \in S : c <= k
  BY SmallestOf
<1>2. CASE c = 0
  <2>1. Is([n \in 0 .. 0 |-> start], 0)
    OBVIOUS
  <2> QED
    BY <1>1, <1>2, <2>1
<1>3. CASE c # 0
  <2>1. c - 1 \in Nat /\ c - 1 \notin S
    <3>1. c \in Nat
      BY <1>1
    <3> HIDE DEF S
    <3> QED
      BY <1>1, <1>3, <3>1
  <2>2. PICK w : Is(w, c - 1)
    BY <2>1
  <2> DEFINE v == [n \in 0 .. c |-> IF n < c THEN w[n] ELSE next[w[c - 1]]]
  <2>3. \A n \in 0 .. c : v[n] = IF n = 0 THEN start ELSE next[v[n - 1]]
    <3>1. w = [n \in 0 .. c - 1 |-> IF n = 0 THEN start ELSE next[w[n - 1]]]
      BY <2>2
    <3>2. \A n \in 0 .. c - 1 : w[n] = IF n = 0 THEN start ELSE next[w[n - 1]]
      BY <3>1
    <3>3. \A n \in 0 .. c : v[n] = IF n < c THEN w[n] ELSE next[w[c - 1]]
      OBVIOUS
    <3> HIDE DEF v
    <3>4. c \in Nat /\ c # 0
      BY <1>1, <1>3
    <3> SUFFICES ASSUME NEW n \in 0 .. c
                 PROVE  v[n] = IF n = 0 THEN start ELSE next[v[n - 1]]
      OBVIOUS
    <3>5. CASE n = 0
      BY <3>2, <3>3, <3>4, <3>5
    <3>6. CASE n # 0
      <4>1. n - 1 \in 0 .. c /\ n - 1 < c /\ v[n - 1] = w[n - 1]
        BY <3>3, <3>4, <3>6
      <4>2. CASE n = c
        BY <3>3, <3>4, <3>6, <4>1, <4>2
      <4>3. CASE n # c
        <5>1. n \in 0 .. c - 1 /\ v[n] = w[n]
          BY <3>3, <3>4, <4>3
        <5> QED
          BY <3>2, <3>6, <4>1, <5>1
      <4> QED
        BY <4>2, <4>3
    <3> QED
      BY <3>5, <3>6
  <2>4. Is(v, c)
    <3>1. v = [n \in 0 .. c |-> v[n]]
      OBVIOUS
    <3> HIDE DEF v
    <3> QED
      BY <2>3, <3>1
  <2> QED
    BY <1>1, <2>4
<1> QED
  BY <1>2, <1>3

\* A walk stays where each of its steps stays.
LEMMA WalkStays ==
  ASSUME NEW D, NEW c \in Nat, NEW w, w[0] \in D,
         \A n \in 1 .. c : w[n - 1] \in D => w[n] \in D
  PROVE  \A n \in 0 .. c : w[n] \in D
<1> DEFINE S == {n \in 0 .. c : w[n] \notin D}
<1> SUFFICES ASSUME S # {}
             PROVE  FALSE
  OBVIOUS
<1>1. S \in SUBSET Nat
  OBVIOUS
<1>2. PICK n \in S : \A k \in S : n <= k
  BY <1>1, SmallestOf
<1>3. n \in 1 .. c /\ n - 1 \in 0 .. c
  BY <1>2
<1>4. n - 1 \notin S
  <2> HIDE DEF S
  <2> QED
    BY <1>2, <1>3
<1> QED
  BY <1>2, <1>3, <1>4

\* Where a walk along ptr leads, if ptr stays in the list.
Closed(f, p) ==
  /\ p \in DOMAIN f /\ \A a \in DOMAIN f : f[a].ptr \in DOMAIN f
  /\ IsFiniteSet(DOMAIN f)

\* It never leaves the list, and each step is along ptr.
LEMMA WalkSteps ==
  ASSUME NEW f, NEW p, Closed(f, p)
  PROVE  LET w == Walk(List(f, p))
             c == Cardinality(DOMAIN f)
         IN  /\ c \in Nat /\ DOMAIN w = 0 .. c
             /\ \A n \in 0 .. c : w[n] \in DOMAIN f
             /\ w[0] = p /\ \A n \in 1 .. c : w[n] = f[w[n - 1]].ptr
<1> DEFINE w == Walk(List(f, p))
           c == Cardinality(DOMAIN f)
           Is(u) == u = [n \in 0 .. c |-> IF n = 0 THEN p ELSE f[u[n - 1]].ptr]
           next == [a \in DOMAIN f |-> f[a].ptr]
           D == DOMAIN f
<1>1. c \in Nat
  BY FS_CardinalityType DEF Closed
<1> HIDE DEF c, w
<1>2. PICK v : v = [n \in 0 .. c |-> IF n = 0 THEN p ELSE next[v[n - 1]]]
  <2>1. next \in [D -> D] /\ p \in D
    BY DEF Closed
  <2> HIDE DEF next, D
  <2> QED
    BY <1>1, <2>1, WalkExists
<1>3. Is(v)
  <2>1. \A n \in 0 .. c : v[n] = IF n = 0 THEN p ELSE next[v[n - 1]]
    BY <1>2
  <2>2. \A n \in 0 .. c : v[n] \in D
    <3>1. p \in D /\ \A a \in D : next[a] \in D
      BY DEF Closed
    <3>2. 0 \in 0 .. c /\ \A n \in 1 .. c : n \in 0 .. c /\ n # 0
      BY <1>1
    <3>3. v[0] = p /\ \A n \in 1 .. c : v[n] = next[v[n - 1]]
      BY <2>1, <3>2
    <3> HIDE DEF next, D
    <3>4. v[0] \in D /\ \A n \in 1 .. c : v[n - 1] \in D => v[n] \in D
      BY <3>1, <3>3
    <3> QED
      BY <1>1, <3>4, WalkStays
  <2>3. \A n \in 0 .. c : v[n] = IF n = 0 THEN p ELSE f[v[n - 1]].ptr
    <3>1. \A n \in 0 .. c : n # 0 => n - 1 \in 0 .. c
      BY <1>1
    <3> QED
      BY <2>1, <2>2, <3>1
  <2>4. v = [n \in 0 .. c |-> v[n]]
    BY <1>2
  <2> QED
    BY <2>3, <2>4
<1>4. Is(w)
  <2>1. w = CHOOSE u : Is(u)
    BY DEF Walk, List, w, c
  <2> HIDE DEF Is
  <2> QED
    BY <1>3, <2>1
<1>5. \A n \in 0 .. c : w[n] = IF n = 0 THEN p ELSE f[w[n - 1]].ptr
  <2>1. w = [n \in 0 .. c |-> IF n = 0 THEN p ELSE f[w[n - 1]].ptr]
    BY <1>4
  <2> QED
    BY <2>1
<1>6. DOMAIN w = 0 .. c
  <2>1. w = [n \in 0 .. c |-> IF n = 0 THEN p ELSE f[w[n - 1]].ptr]
    BY <1>4
  <2> QED
    BY <2>1
<1>7. \A n \in 0 .. c : w[n] \in D
  <2>1. w[0] \in D /\ \A n \in 1 .. c : w[n - 1] \in D => w[n] \in D
    BY <1>1, <1>5 DEF Closed
  <2> HIDE DEF D
  <2> QED
    BY <1>1, <2>1, WalkStays
<1> QED
  BY <1>1, <1>5, <1>6, <1>7 DEF w, c

-----------------------------------------------------------------------------
(* Rings.                                                                   *)

\* The ptr of a node leads to the next node in the order of addresses, and
\* that of the last node to the first.
Follows(a, nx, b) == IF a < nx THEN b <= a \/ nx <= b ELSE nx <= b /\ b <= a

InOrder(f) == \A a, b \in DOMAIN f : Follows(a, f[a].ptr, b)

\* A set of nodes that ptr does not leave is the whole ring: the ptr of its
\* last node leads to the first of all, and below a node outside it would be
\* a largest one inside, whose ptr skips that node.
LEMMA ClosedIsAll ==
  ASSUME NEW N \in Nat, NEW f, DOMAIN f \subseteq 0 .. N, InOrder(f),
         NEW S \in SUBSET DOMAIN f, S # {}, \A a \in S : f[a].ptr \in S
  PROVE  S = DOMAIN f
<1>0. S \in SUBSET (0 .. N)
  OBVIOUS
<1>1. PICK m \in S : \A k \in S : k <= m
  BY <1>0, LargestOf
<1>2. \A b \in DOMAIN f : f[m].ptr <= b
  <2>1. f[m].ptr \in S /\ f[m].ptr <= m /\ m \in Nat /\ f[m].ptr \in Nat
    BY <1>0, <1>1
  <2> QED
    BY <2>1, <1>1 DEF InOrder, Follows
<1>3. ASSUME NEW b \in DOMAIN f
      PROVE  b \in S
  <2> DEFINE T == {a \in S : a <= b}
  <2>1. f[m].ptr \in T /\ T \in SUBSET (0 .. N)
    BY <1>0, <1>1, <1>2
  <2>2. PICK a \in T : \A k \in T : k <= a
    BY <2>1, LargestOf
  <2>3. a \in S /\ a <= b /\ f[a].ptr \in S /\ a \in Nat /\ f[a].ptr \in Nat /\ b \in Nat
    BY <1>0, <2>2
  <2>4. Follows(a, f[a].ptr, b)
    BY <2>3 DEF InOrder
  <2>5. f[a].ptr <= b => f[a].ptr <= a
    BY <2>2, <2>3
  <2>6. b <= a
    BY <2>3, <2>4, <2>5 DEF Follows
  <2> QED
    BY <2>3, <2>6
<1> QED
  BY <1>3

\* So a search from anywhere meets every node within as many steps as there
\* are nodes: some node is met twice, and the nodes met in between are a set
\* that ptr does not leave.
LEMMA WalkMeetsAll ==
  ASSUME NEW N \in Nat, NEW f, NEW p, DOMAIN f \subseteq 0 .. N, Closed(f, p), InOrder(f),
         NEW b \in DOMAIN f
  PROVE  \E n \in DOMAIN Walk(List(f, p)) \ {0} : Walk(List(f, p))[n] = b
<1> DEFINE w == Walk(List(f, p))
           c == Cardinality(DOMAIN f)
           D == DOMAIN f
<1>1. /\ c \in Nat /\ DOMAIN w = 0 .. c
      /\ \A n \in 0 .. c : w[n] \in D
      /\ \A n \in 1 .. c : w[n] = f[w[n - 1]].ptr
  BY WalkSteps
<1> HIDE DEF w, c
<1>2. PICK i, j \in 0 .. c : i # j /\ w[i] = w[j]
  <2>1. IsFiniteSet(0 .. c) /\ Cardinality(0 .. c) = c + 1
    <3>1. 0 \in Int /\ c \in Int /\ ~ (0 > c) /\ c - 0 + 1 = c + 1
      BY <1>1
    <3> QED
      BY <3>1, FS_Interval
  <2>2. IsFiniteSet(D)
    BY DEF Closed
  <2>3. [n \in 0 .. c |-> w[n]] \in [0 .. c -> D]
    BY <1>1
  <2>4. Cardinality(D) < Cardinality(0 .. c)
    <3>1. c < Cardinality(0 .. c)
      BY <1>1, <2>1
    <3> QED
      BY <3>1 DEF c
  <2> HIDE DEF D
  <2>5. \A g \in [0 .. c -> D] : \E x, y \in 0 .. c : x # y /\ g[x] = g[y]
    BY <2>1, <2>2, <2>4, FS_PigeonHole
  <2> QED
    BY <2>3, <2>5
<1>3. ASSUME NEW k \in 0 .. c, NEW l \in 0 .. c, k < l, w[k] = w[l]
      PROVE  \E n \in 1 .. c : w[n] = b
  <2> DEFINE S == {w[n] : n \in k + 1 .. l}
  <2>1. /\ \A n \in k + 1 .. l : n \in 1 .. c /\ n \in 0 .. c
        /\ k + 1 \in k + 1 .. l /\ l \in k + 1 .. l /\ k + 1 \in 1 .. c
    BY <1>1, <1>3
  <2>2. S \in SUBSET D /\ S # {}
    BY <1>1, <2>1
  <2>3. ASSUME NEW a \in S
        PROVE  f[a].ptr \in S
    <3>1. PICK n \in k + 1 .. l : a = w[n]
      OBVIOUS
    <3>2. CASE n = l
      <4>1. f[a].ptr = f[w[k]].ptr
        BY <1>3, <3>1, <3>2
      <4>2. w[k + 1] = f[w[k]].ptr
        <5>1. (k + 1) - 1 = k
          OBVIOUS
        <5> QED
          BY <1>1, <2>1, <5>1
      <4> QED
        BY <2>1, <4>1, <4>2
    <3>3. CASE n # l
      <4>1. n + 1 \in k + 1 .. l /\ n + 1 \in 1 .. c /\ (n + 1) - 1 = n
        <5> HIDE DEF S
        <5> QED
          BY <1>1, <3>3
      <4>2. w[n + 1] = f[w[n]].ptr
        BY <1>1, <4>1
      <4> QED
        BY <3>1, <4>1, <4>2
    <3> QED
      BY <3>2, <3>3
  <2>4. S = D
    <3> HIDE DEF S
    <3> QED
      BY <2>2, <2>3, ClosedIsAll
  <2> QED
    BY <2>1, <2>4
<1>4. \E n \in 1 .. c : w[n] = b
  <2>1. i < j \/ j < i
    BY <1>1, <1>2
  <2> QED
    BY <1>2, <1>3, <2>1
<1> QED
  <2>1. \A n \in 1 .. c : n \in DOMAIN w \ {0}
    BY <1>1
  <2> QED
    BY <1>4, <2>1 DEF w

-----------------------------------------------------------------------------
(* Free lists.                                                              *)

Covers(f, x) == \E a \in DOMAIN f : x \in Units(a, f[a].size)

\* A free list: a ring with base, in which only base is empty and the blocks
\* do not overlap; those outside S do not touch the block behind them either.
Ring(f, S) ==
  /\ base \in DOMAIN f /\ DOMAIN f \subseteq Addr
  /\ \A a \in DOMAIN f : f[a] \in [ptr : DOMAIN f, size : Nat]
  /\ \A a \in DOMAIN f : f[a].size = 0 <=> a = base
  /\ InOrder(f)
  /\ \A a, b \in DOMAIN f : a < b =>
        a + f[a].size <= b /\ (a \notin S => a + f[a].size < b)

\* What a search needs of a free list.
LEMMA RingClosed ==
  ASSUME NEW f, NEW S, Ring(f, S), NEW p \in DOMAIN f
  PROVE  Closed(f, p) /\ DOMAIN f \subseteq 0 .. LastUnit
<1>1. IsFiniteSet(DOMAIN f)
  BY AddrTyped, FS_Subset DEF Ring
<1> QED
  BY <1>1, AddrTyped DEF Ring, Closed

\* What a ring says of a node, by numbers alone.
LEMMA RingNode ==
  ASSUME NEW f, NEW S, Ring(f, S), NEW a \in DOMAIN f
  PROVE  /\ a \in Nat /\ a \in Addr /\ f[a].ptr \in DOMAIN f /\ f[a].ptr \in Nat
         /\ f[a].size \in Nat /\ (f[a].size = 0 <=> a = base)
         /\ f[a] = Block(f[a].ptr, f[a].size)
         /\ \A b \in DOMAIN f : Follows(a, f[a].ptr, b)
<1>1. a \in Addr /\ f[a] \in [ptr : DOMAIN f, size : Nat] /\ DOMAIN f \subseteq Nat
  BY AddrTyped DEF Ring
<1> QED
  BY <1>1, AddrTyped DEF Ring, InOrder, Block

\* In a ring only the node before nx, of a node other than base, leads to nx.
LEMMA OneLeads ==
  ASSUME NEW f, NEW S, Ring(f, S), NEW a \in DOMAIN f, f[a].ptr # base,
         NEW b \in DOMAIN f, f[b].ptr = f[a].ptr
  PROVE  b = a /\ a < f[a].ptr
<1>1. /\ a \in Nat /\ b \in Nat /\ f[a].ptr \in Nat /\ base \in DOMAIN f
      /\ Follows(a, f[a].ptr, b) /\ Follows(b, f[a].ptr, a)
      /\ Follows(a, f[a].ptr, base) /\ Follows(b, f[a].ptr, base)
  BY RingNode DEF Ring
<1>2. f[a].ptr > 0
  BY <1>1 DEF base
<1>3. a < f[a].ptr /\ b < f[a].ptr
  BY <1>1, <1>2 DEF Follows, base
<1> QED
  BY <1>1, <1>3 DEF Follows

\* Enough for a ring: the nodes and links of g, one by one.
LEMMA RingIntro ==
  ASSUME NEW g, NEW S, base \in DOMAIN g, DOMAIN g \subseteq Addr,
         \A a \in DOMAIN g : /\ \E nx \in DOMAIN g, n \in Nat : g[a] = Block(nx, n)
                             /\ g[a].size = 0 <=> a = base,
         \A a, b \in DOMAIN g : /\ Follows(a, g[a].ptr, b)
                                /\ a < b =>
                                     a + g[a].size <= b /\ (a \notin S => a + g[a].size < b)
  PROVE  Ring(g, S)
<1>1. \A a \in DOMAIN g : g[a] \in [ptr : DOMAIN g, size : Nat]
  BY DEF Block
<1> QED
  BY <1>1 DEF Ring, InOrder

-----------------------------------------------------------------------------
(* What ufree does to a free list.                                          *)

Clear(f, bp, n) == \A a \in DOMAIN f : a + f[a].size <= bp \/ bp + n <= a

\* The block bp entered behind q.
Entered(f, q, bp, n) == [With(f, bp, Block(f[q].ptr, n)) EXCEPT ![q].ptr = bp]

\* g is the ring f with one more block.
BehindIs(f, g, q, bp, n) ==
  /\ Ring(g, {q, bp}) /\ DOMAIN g = DOMAIN f \cup {bp}
  /\ g[bp] = Block(f[q].ptr, n) /\ g[q] = Block(bp, f[q].size)
  /\ \A b \in DOMAIN f \ {q} : g[b] = f[b]
  /\ \A x : Covers(g, x) <=> Covers(f, x) \/ x \in Units(bp, n)

\* The list with bp entered between q and its successor, or behind the last
\* node, is a ring, where q and bp may touch what follows.
LEMMA EnteredRing ==
  ASSUME NEW f, Ring(f, {}), NEW q \in DOMAIN f, NEW bp \in Addr, NEW n \in Nat \ {0},
         Clear(f, bp, n), q < bp /\ (bp < f[q].ptr \/ f[q].ptr = base)
  PROVE  BehindIs(f, Entered(f, q, bp, n), q, bp, n)
<1> DEFINE g == Entered(f, q, bp, n)
           D == DOMAIN f
           nx == f[q].ptr
<1>1. /\ bp \in Nat /\ q \in Nat /\ nx \in Nat /\ base \in D /\ nx \in D /\ D \subseteq Addr
      /\ bp # q /\ f[q] = Block(nx, f[q].size)
  <2>1. bp \in Nat /\ base \in D /\ D \subseteq Addr
    BY AddrTyped DEF Ring
  <2>2. q \in Nat /\ nx \in Nat /\ nx \in D /\ f[q] = Block(nx, f[q].size)
    BY RingNode
  <2> QED
    BY <2>1, <2>2
<1>2. bp \notin D
  <2> SUFFICES ASSUME bp \in D
               PROVE  FALSE
    OBVIOUS
  <2>1. f[bp].size \in Nat /\ (bp + f[bp].size <= bp \/ bp + n <= bp) /\ bp # base
        /\ (f[bp].size = 0 <=> bp = base)
    BY <1>1, RingNode DEF Clear, base
  <2> QED
    BY <1>1, <2>1
<1>3. /\ DOMAIN g = D \cup {bp} /\ g[bp] = Block(nx, n) /\ g[q] = Block(bp, f[q].size)
      /\ \A b \in D \ {q} : g[b] = f[b]
  <2> DEFINE h == With(f, bp, Block(nx, n))
  <2>1. /\ DOMAIN h = D \cup {bp} /\ h[bp] = Block(nx, n) /\ \A b \in D : h[b] = f[b]
    BY <1>2 DEF With
  <2>2. g = [h EXCEPT ![q].ptr = bp]
    BY DEF Entered
  <2> HIDE DEF h, g
  <2>3. g[q] = [Block(nx, f[q].size) EXCEPT !.ptr = bp]
    BY <1>1, <2>1, <2>2
  <2> QED
    BY <1>1, <2>1, <2>2, <2>3 DEF Block
<1> HIDE DEF g
<1>4. /\ \A b \in D : b \in Nat /\ b # bp /\ Follows(q, nx, b)
      /\ \A b \in D : f[b].size \in Nat
      /\ \A b \in D : b + f[b].size <= bp \/ bp + n <= b
      /\ \A a, b \in D : a < b => a + f[a].size < b
  <2>1. \A b \in D : b \in Nat /\ f[b].size \in Nat
    BY RingNode
  <2>2. \A b \in D : Follows(q, nx, b)
    BY RingNode
  <2> QED
    BY <1>2, <2>1, <2>2 DEF Ring, Clear
<1>5. /\ \A a \in DOMAIN g : g[a].size = IF a = bp THEN n ELSE f[a].size
      /\ g[bp].ptr = nx /\ g[q].ptr = bp
  BY <1>1, <1>3 DEF Block
<1>6. ASSUME NEW a \in DOMAIN g, NEW b \in DOMAIN g
      PROVE  Follows(a, g[a].ptr, b)
  <2>1. CASE a = bp
    BY <1>1, <1>3, <1>4, <1>5, <2>1 DEF Follows, base
  <2>2. CASE a = q
    BY <1>1, <1>3, <1>4, <1>5, <2>2 DEF Follows, base
  <2>3. CASE a # bp /\ a # q
    <3> DEFINE m == f[a].ptr
    <3>1. a \in D /\ g[a].ptr = m /\ m \in Nat /\ \A d \in D : Follows(a, m, d)
      BY <1>3, <2>3, RingNode
    <3>2. CASE b \in D
      BY <3>1, <3>2
    <3>3. CASE b = bp
      <4>1. Follows(a, m, q) /\ Follows(a, m, base) /\ Follows(q, nx, a) /\ a \in Nat
        BY <1>1, <1>4, <3>1
      <4> HIDE DEF m
      <4>2. Follows(a, m, bp)
        <5>1. CASE a < m
          BY <1>1, <2>3, <3>1, <4>1, <5>1 DEF Follows, base
        <5>2. CASE ~ (a < m)
          BY <1>1, <2>3, <3>1, <4>1, <5>2 DEF Follows, base
        <5> QED
          BY <5>1, <5>2
      <4> QED
        BY <3>1, <3>3, <4>2
    <3> QED
      BY <1>3, <3>2, <3>3
  <2> QED
    BY <2>1, <2>2, <2>3
<1>7. ASSUME NEW a \in DOMAIN g, NEW b \in DOMAIN g, a < b
      PROVE  /\ a + g[a].size <= b
             /\ (a \notin {q, bp} => a + g[a].size < b)
  <2>1. CASE a = bp
    BY <1>1, <1>3, <1>4, <1>5, <1>7, <2>1
  <2>2. CASE b = bp
    <3>1. a \in D /\ a + f[a].size <= bp
      BY <1>1, <1>3, <1>4, <1>7, <2>2
    <3>2. a # q => a < q
      BY <1>1, <1>4, <1>7, <2>2, <3>1 DEF Follows, base
    <3>3. a # q => a + f[a].size < bp
      BY <1>1, <1>4, <3>1, <3>2
    <3>4. g[a].size = f[a].size
      BY <1>2, <1>3, <1>5, <3>1
    <3> QED
      BY <2>2, <3>1, <3>3, <3>4
  <2>3. CASE a # bp /\ b # bp
    BY <1>3, <1>4, <1>5, <1>7, <2>3
  <2> QED
    BY <2>1, <2>2, <2>3
<1>8. Ring(g, {q, bp})
  <2>1. base \in DOMAIN g /\ DOMAIN g \subseteq Addr
    BY <1>1, <1>3
  <2>2. ASSUME NEW a \in DOMAIN g
        PROVE  /\ \E m \in DOMAIN g, k \in Nat : g[a] = Block(m, k)
               /\ g[a].size = 0 <=> a = base
    <3>1. CASE a = bp
      BY <1>1, <1>3, <1>5, <3>1 DEF base
    <3>2. CASE a = q
      BY <1>1, <1>3, <1>4, <1>5, <3>2, RingNode
    <3>3. CASE a # bp /\ a # q
      BY <1>3, <3>3, RingNode
    <3> QED
      BY <3>1, <3>2, <3>3
  <2> QED
    BY <1>6, <1>7, <2>1, <2>2, RingIntro
<1>9. ASSUME NEW x
      PROVE  Covers(g, x) <=> Covers(f, x) \/ x \in Units(bp, n)
  BY <1>2, <1>3, <1>5 DEF Covers
<1> QED
  BY <1>3, <1>8, <1>9 DEF g, BehindIs

\* The node behind a, which a touches, taken into a.
Joined(f, a) ==
  LET nx == f[a].ptr
  IN  With(Without(f, nx), a, Block(f[nx].ptr, f[a].size + f[nx].size))

\* g is the ring f without the block nx, which a has taken in.
TakesIn(f, g, a, nx, T) ==
  /\ Ring(g, T) /\ DOMAIN g = DOMAIN f \ {nx}
  /\ g[a] = Block(f[nx].ptr, f[a].size + f[nx].size)
  /\ \A b \in DOMAIN f \ {a, nx} : g[b] = f[b]
  /\ \A x : Covers(g, x) <=> Covers(f, x)

\* Two blocks that touch are one, which touches what the second touched.
LEMMA JoinedRing ==
  ASSUME NEW f, NEW S, Ring(f, S), NEW a \in DOMAIN f \ {base},
         a + f[a].size = f[a].ptr, f[a].ptr \notin S,
         NEW T, S \ {a} \subseteq T
  PROVE  TakesIn(f, Joined(f, a), a, f[a].ptr, T)
<1> DEFINE g == Joined(f, a)
           D == DOMAIN f
           nx == f[a].ptr
           m == f[nx].ptr
           s == f[a].size
           t == f[nx].size
<1>1. /\ a \in Nat /\ nx \in Nat /\ nx \in D /\ base \in D /\ D \subseteq Addr
      /\ m \in D /\ m \in Nat /\ s \in Nat \ {0} /\ t \in Nat /\ a + s = nx
      /\ \A b \in D : Follows(a, nx, b) /\ Follows(nx, m, b)
  <2>1. nx \in D /\ base \in D /\ D \subseteq Addr
    BY RingNode DEF Ring
  <2> QED
    BY <2>1, RingNode
<1>2. nx # a /\ nx # base /\ a < nx /\ t # 0
  <2>1. nx # a /\ nx # base /\ a < nx
    BY <1>1 DEF base
  <2> QED
    BY <1>1, <2>1, RingNode
<1>3. /\ DOMAIN g = D \ {nx} /\ g[a] = Block(m, s + t)
      /\ \A b \in D \ {a, nx} : g[b] = f[b]
  <2> DEFINE h == Without(f, nx)
  <2>1. DOMAIN h = D \ {nx} /\ \A b \in D \ {nx} : h[b] = f[b]
    BY DEF Without
  <2>2. g = With(h, a, Block(m, s + t))
    BY DEF Joined
  <2>3. /\ DOMAIN g = DOMAIN h \cup {a} /\ g[a] = Block(m, s + t)
        /\ \A b \in DOMAIN h \ {a} : g[b] = h[b]
    <3> HIDE DEF h, g, m, s, t
    <3> QED
      BY <2>2 DEF With
  <2> HIDE DEF h, g
  <2> QED
    BY <1>2, <2>1, <2>3
<1> HIDE DEF g
<1>4. /\ \A b \in D : b \in Nat /\ f[b].size \in Nat
      /\ \A b, d \in D : b < d => b + f[b].size <= d /\ (b \notin S => b + f[b].size < d)
      /\ nx \notin S
  <2>1. \A b \in D : b \in Nat /\ f[b].size \in Nat
    BY RingNode
  <2> QED
    BY <2>1 DEF Ring
<1>5. /\ \A b \in DOMAIN g : g[b].size = IF b = a THEN s + t ELSE f[b].size
      /\ \A b \in DOMAIN g : g[b].ptr = IF b = a THEN m ELSE f[b].ptr
  BY <1>3 DEF Block
<1>6. \A b \in DOMAIN g : g[b].ptr # nx
  <2> SUFFICES ASSUME NEW b \in DOMAIN g, g[b].ptr = nx
               PROVE  FALSE
    OBVIOUS
  <2>1. b # a => f[b].ptr = nx /\ b \in D
    BY <1>3, <1>5
  <2>2. b = a
    BY <1>2, <2>1, OneLeads
  <2>3. m = nx
    BY <1>5, <2>2
  <2>4. Follows(nx, nx, base)
    BY <1>1, <2>3
  <2> QED
    BY <1>1, <1>2, <2>4 DEF Follows, base
<1>7. ASSUME NEW b \in DOMAIN g, NEW d \in DOMAIN g
      PROVE  Follows(b, g[b].ptr, d)
  <2>1. d \in D /\ d # nx /\ d \in Nat
    BY <1>3, <1>4
  <2>2. CASE b = a
    <3>1. Follows(a, nx, d) /\ Follows(nx, m, d) /\ Follows(nx, m, a) /\ Follows(nx, m, base)
          /\ Follows(a, nx, m) /\ m # nx
      BY <1>1, <1>3, <1>5, <1>6, <2>1
    <3> HIDE DEF m, nx
    <3>2. Follows(a, m, d)
      BY <1>1, <1>2, <2>1, <3>1 DEF Follows, base
    <3> QED
      BY <1>5, <2>2, <3>2
  <2>3. CASE b # a
    BY <1>3, <1>5, <2>1, <2>3, RingNode
  <2> QED
    BY <2>2, <2>3
<1>8. ASSUME NEW b \in DOMAIN g, NEW d \in DOMAIN g, b < d
      PROVE  /\ b + g[b].size <= d
             /\ (b \notin T => b + g[b].size < d)
  <2>1. d \in D /\ b \in D /\ d # nx /\ d \in Nat /\ b \in Nat
    BY <1>3, <1>4
  <2>2. CASE b = a
    <3>1. nx < d
      BY <1>1, <1>2, <1>8, <2>1, <2>2 DEF Follows
    <3>2. nx + t < d
      BY <1>1, <1>4, <2>1, <3>1
    <3> HIDE DEF nx, s, t
    <3> QED
      BY <1>1, <1>5, <2>1, <2>2, <3>2
  <2>3. CASE b # a
    <3>1. g[b].size = f[b].size
      BY <1>5, <2>3
    <3> QED
      BY <1>4, <1>8, <2>1, <2>3, <3>1
  <2> QED
    BY <2>2, <2>3
<1>9. Ring(g, T)
  <2>1. base \in DOMAIN g /\ DOMAIN g \subseteq Addr
    BY <1>1, <1>2, <1>3
  <2>2. ASSUME NEW b \in DOMAIN g
        PROVE  /\ \E u \in DOMAIN g, k \in Nat : g[b] = Block(u, k)
               /\ g[b].size = 0 <=> b = base
    <3>1. CASE b = a
      <4>1. m \in DOMAIN g /\ s + t \in Nat /\ s + t # 0
        <5>1. m # nx
          BY <1>5, <1>6, <3>1
        <5>2. s + t \in Nat /\ s + t # 0
          BY <1>1
        <5> QED
          BY <1>1, <1>3, <5>1, <5>2
      <4> QED
        BY <1>3, <1>5, <3>1, <4>1
    <3>2. CASE b # a
      <4>1. /\ b \in D /\ g[b] = f[b] /\ f[b] = Block(f[b].ptr, f[b].size)
            /\ f[b].ptr \in D /\ f[b].size \in Nat /\ (f[b].size = 0 <=> b = base)
        BY <1>3, <3>2, RingNode
      <4>2. f[b].ptr \in DOMAIN g
        BY <1>3, <1>6, <4>1
      <4> QED
        BY <4>1, <4>2
    <3> QED
      BY <3>1, <3>2
  <2> QED
    BY <1>7, <1>8, <2>1, <2>2, RingIntro
<1>10. ASSUME NEW x
       PROVE  Covers(g, x) <=> Covers(f, x)
  <2>1. x \in Units(a, s + t) <=> x \in Units(a, s) \/ x \in Units(nx, t)
    <3> HIDE DEF nx, s, t
    <3> QED
      BY <1>1 DEF Units
  <2>2. Covers(g, x) <=> x \in Units(a, s + t) \/ \E b \in D \ {a, nx} : x \in Units(b, f[b].size)
    BY <1>2, <1>3, <1>5 DEF Covers
  <2>3. Covers(f, x) <=> x \in Units(a, s) \/ x \in Units(nx, t)
                          \/ \E b \in D \ {a, nx} : x \in Units(b, f[b].size)
    BY <1>1 DEF Covers
  <2> QED
    BY <2>1, <2>2, <2>3
<1> QED
  BY <1>3, <1>9, <1>10 DEF g, TakesIn

\* A node that does not touch its successor touches no node.
LEMMA NotTouching ==
  ASSUME NEW f, NEW S, Ring(f, S), NEW a \in DOMAIN f, a + f[a].size # f[a].ptr,
         NEW T, S \ {a} \subseteq T
  PROVE  Ring(f, T)
<1>1. ASSUME NEW b \in DOMAIN f, a < b
      PROVE  a + f[a].size < b
  <2>1. /\ a \in Nat /\ b \in Nat /\ f[a].ptr \in Nat /\ f[a].size \in Nat
        /\ f[a].ptr \in DOMAIN f /\ Follows(a, f[a].ptr, b)
    BY RingNode
  <2>2. a < f[a].ptr /\ f[a].ptr <= b
    BY <1>1, <2>1 DEF Follows
  <2>3. a + f[a].size <= f[a].ptr
    <3>1. \A c, d \in DOMAIN f : c < d => c + f[c].size <= d
      BY DEF Ring
    <3> QED
      BY <2>1, <2>2, <3>1
  <2> QED
    BY <2>1, <2>2, <2>3
<1> QED
  BY <1>1 DEF Ring

\* ufree finds the node that bp goes behind, wherever its search begins.
LEMMA StopsBehind ==
  ASSUME NEW f, Ring(f, {}), NEW p \in DOMAIN f, NEW bp \in Addr, bp > 0, bp \notin DOMAIN f
  PROVE  LET q == Walk(List(f, p))[Min(Stops(List(f, p), bp))]
         IN  q \in DOMAIN f /\ q < bp /\ (bp < f[q].ptr \/ f[q].ptr = base)
<1> DEFINE w == Walk(List(f, p))
           T == Stops(List(f, p), bp)
<1>1. /\ bp \in Nat /\ base \in DOMAIN f
      /\ \A a \in DOMAIN f : a \in Nat /\ f[a].ptr \in Nat /\ f[a].ptr \in DOMAIN f
      /\ \A a, b \in DOMAIN f : Follows(a, f[a].ptr, b)
  <2>1. \A a \in DOMAIN f : a \in Nat /\ f[a].ptr \in Nat /\ f[a].ptr \in DOMAIN f
    BY RingNode
  <2> QED
    BY <2>1, AddrTyped DEF Ring, InOrder
<1>2. \A a : GoesAfter(List(f, p), a, bp)
               <=> \/ bp > a /\ bp < f[a].ptr
                   \/ a >= f[a].ptr /\ (bp > a \/ bp < f[a].ptr)
  BY DEF GoesAfter, List
<1>3. \E a \in DOMAIN f : GoesAfter(List(f, p), a, bp)
  <2> DEFINE L == {a \in DOMAIN f : a < bp}
  <2>1. L \in SUBSET (0 .. bp) /\ base \in L
    BY <1>1 DEF base
  <2>2. PICK a \in L : \A k \in L : k <= a
    BY <1>1, <2>1, LargestOf
  <2>3. a \in DOMAIN f /\ a < bp /\ a \in Nat /\ f[a].ptr \in Nat /\ f[a].ptr # bp
    BY <1>1
  <2>4. f[a].ptr < bp => f[a].ptr <= a
    BY <1>1, <2>2, <2>3
  <2>5. bp < f[a].ptr \/ a >= f[a].ptr
    BY <1>1, <2>3, <2>4
  <2> QED
    BY <1>1, <1>2, <2>3, <2>5
<1>4. /\ DOMAIN w \in SUBSET Nat /\ \A n \in DOMAIN w : w[n] \in DOMAIN f
      /\ \A b \in DOMAIN f : \E n \in DOMAIN w : w[n] = b
  <2>1. Closed(f, p) /\ DOMAIN f \subseteq 0 .. LastUnit
        /\ LastUnit \in Nat /\ InOrder(f)
    BY RingClosed, AddrTyped DEF Ring
  <2>2. /\ \A b \in DOMAIN f : \E n \in DOMAIN w \ {0} : w[n] = b
    BY <2>1, WalkMeetsAll
  <2>3. /\ DOMAIN w = 0 .. Cardinality(DOMAIN f)
        /\ \A n \in 0 .. Cardinality(DOMAIN f) : w[n] \in DOMAIN f
    BY <2>1, WalkSteps
  <2> QED
    BY <2>2, <2>3
<1>5. T \in SUBSET Nat /\ T # {}
  <2>1. T = {n \in DOMAIN w : GoesAfter(List(f, p), w[n], bp)}
    BY DEF Stops
  <2> HIDE DEF T, w
  <2> QED
    BY <1>3, <1>4, <2>1
<1>6. Min(T) \in T
  <2> HIDE DEF T
  <2> QED
    BY <1>5, MinOf
<1> DEFINE q == w[Min(T)]
<1>7. q \in DOMAIN f /\ GoesAfter(List(f, p), q, bp)
  <2>1. Min(T) \in DOMAIN w /\ GoesAfter(List(f, p), q, bp)
    BY <1>6 DEF Stops
  <2> HIDE DEF w, T
  <2> QED
    BY <1>4, <2>1
<1>8. q < bp /\ (bp < f[q].ptr \/ f[q].ptr = base)
  <2> HIDE DEF q
  <2>1. Follows(q, f[q].ptr, base) /\ q \in Nat /\ f[q].ptr \in Nat
    BY <1>1, <1>7
  <2> QED
    BY <1>1, <1>2, <1>7, <2>1 DEF Follows, base
<1> QED
  BY <1>7, <1>8

\* ufree: the block that comes back is in the list, merged with what it
\* touches on either side, and nothing else has moved.
LEMMA FreedRing ==
  ASSUME NEW f, Ring(f, {}), NEW p \in DOMAIN f, NEW bp \in Addr, bp > 0,
         NEW n \in Nat \ {0}, Clear(f, bp, n)
  PROVE  LET l == Freed(List(f, p), bp, n)
         IN  /\ Ring(l.free, {}) /\ l.freep \in DOMAIN l.free
             /\ \A x : Covers(l.free, x) <=> Covers(f, x) \/ x \in Units(bp, n)
             /\ \E a \in DOMAIN l.free : n <= l.free[a].size
<1> DEFINE q == Walk(List(f, p))[Min(Stops(List(f, p), bp))]
           nx == f[q].ptr
           up == JoinedUp(List(f, p), q, bp, n)
           g == JoinedDown(up, q, bp)
           e == Entered(f, q, bp, n)
           h == IF bp + n = nx THEN Joined(e, bp) ELSE e
<1>1. Freed(List(f, p), bp, n) = List(g, q)
  BY DEF Freed
<1>2. bp \in Nat /\ bp \notin DOMAIN f
  <2>1. bp \in Nat
    BY AddrTyped
  <2>2. ASSUME bp \in DOMAIN f
        PROVE  FALSE
    <3>1. f[bp].size \in Nat /\ f[bp].size # 0
      BY <2>2, RingNode DEF base
    <3>2. bp + f[bp].size <= bp \/ bp + n <= bp
      BY <2>2 DEF Clear
    <3> QED
      BY <2>1, <3>1, <3>2
  <2> QED
    BY <2>1, <2>2
<1>3. q \in DOMAIN f /\ q < bp /\ (bp < nx \/ nx = base)
  BY <1>2, StopsBehind
<1> HIDE DEF q
<1>4. /\ q \in Nat /\ nx \in Nat /\ nx \in DOMAIN f /\ f[q].size \in Nat
      /\ (f[q].size = 0 <=> q = base) /\ f[q] = Block(nx, f[q].size)
  BY <1>3, RingNode
<1>5. /\ Ring(e, {q, bp}) /\ DOMAIN e = DOMAIN f \cup {bp}
      /\ e[bp] = Block(nx, n) /\ e[q] = Block(bp, f[q].size)
      /\ \A b \in DOMAIN f \ {q} : e[b] = f[b]
      /\ \A x : Covers(e, x) <=> Covers(f, x) \/ x \in Units(bp, n)
  <2>1. q \in DOMAIN f /\ (q < bp /\ (bp < nx \/ nx = base))
    BY <1>3
  <2>2. BehindIs(f, e, q, bp, n)
    BY <2>1, EnteredRing
  <2> HIDE DEF e, up, g, h, nx
  <2> QED
    BY <2>2 DEF BehindIs, nx
<1> HIDE DEF e
<1>6. /\ Ring(h, {q}) /\ q \in DOMAIN h /\ bp \in DOMAIN h
      /\ h[q] = Block(bp, f[q].size) /\ h[bp].size \in Nat /\ n <= h[bp].size
      /\ DOMAIN up = DOMAIN h /\ up[q] = f[q] /\ \A b \in DOMAIN h \ {q} : up[b] = h[b]
      /\ \A x : Covers(h, x) <=> Covers(e, x)
  <2>1. CASE bp + n = nx
    <3>0. bp < nx /\ nx # q /\ nx # bp
      BY <1>2, <1>3, <1>4, <2>1
    <3>1. e[bp].ptr = nx /\ e[bp].size = n /\ bp \in DOMAIN e \ {base} /\ nx \notin {q, bp}
      BY <1>2, <1>3, <1>4, <1>5, <3>0 DEF Block, base
    <3>2. /\ Ring(Joined(e, bp), {q}) /\ DOMAIN Joined(e, bp) = DOMAIN e \ {nx}
          /\ Joined(e, bp)[bp] = Block(e[nx].ptr, n + e[nx].size)
          /\ \A b \in DOMAIN e \ {bp, nx} : Joined(e, bp)[b] = e[b]
          /\ \A x : Covers(Joined(e, bp), x) <=> Covers(e, x)
      <4>1. {q, bp} \ {bp} \subseteq {q}
        OBVIOUS
      <4>2. bp + e[bp].size = e[bp].ptr /\ e[bp].ptr \notin {q, bp}
        BY <2>1, <3>1
      <4>3. bp \in DOMAIN e \ {base} /\ e[bp].size = n /\ e[bp].ptr = nx /\ Ring(e, {q, bp})
        BY <1>5, <3>1
      <4>4. TakesIn(e, Joined(e, bp), bp, e[bp].ptr, {q})
        BY <4>1, <4>2, <4>3, JoinedRing
      <4> HIDE DEF nx, h, up, g
      <4> QED
        BY <4>3, <4>4 DEF TakesIn
    <3>3. h = Joined(e, bp)
      BY <2>1
    <3>4. e[nx] = f[nx] /\ f[nx].size \in Nat
      <4>1. f[nx].size \in Nat
        BY <1>4, RingNode
      <4> QED
        BY <1>4, <1>5, <3>0, <4>1
    <3>5. up = With(Without(f, nx), bp, Block(f[nx].ptr, n + f[nx].size))
      BY <2>1 DEF JoinedUp, List
    <3>6. /\ DOMAIN up = (DOMAIN f \ {nx}) \cup {bp}
          /\ up[bp] = Block(f[nx].ptr, n + f[nx].size)
          /\ \A b \in DOMAIN f \ {nx} : up[b] = f[b]
      <4> HIDE DEF up, nx
      <4> QED
        BY <1>2, <3>5 DEF With, Without
    <3> HIDE DEF up, h, nx
    <3>7. /\ Ring(h, {q}) /\ DOMAIN h = (DOMAIN f \ {nx}) \cup {bp}
          /\ h[bp] = up[bp] /\ \A b \in DOMAIN f \ {nx} : h[b] = e[b]
      BY <1>2, <1>5, <3>0, <3>2, <3>3, <3>4, <3>6
    <3>8. h[bp].size = n + f[nx].size
      BY <3>6, <3>7 DEF Block
    <3>9. /\ h[q] = Block(bp, f[q].size) /\ up[q] = f[q]
          /\ \A b \in DOMAIN h \ {q} : up[b] = h[b]
      BY <1>3, <1>5, <3>0, <3>6, <3>7
    <3>10. h[bp].size \in Nat /\ n <= h[bp].size
      BY <3>4, <3>8
    <3> QED
      BY <1>3, <3>0, <3>2, <3>3, <3>6, <3>7, <3>9, <3>10
  <2>2. CASE bp + n # nx
    <3>1. h = e /\ e[bp].ptr = nx /\ e[bp].size = n
      BY <1>5, <2>2 DEF Block
    <3>2. Ring(e, {q})
      <4>1. {q, bp} \ {bp} \subseteq {q} /\ bp \in DOMAIN e
        BY <1>5
      <4>2. bp + e[bp].size # e[bp].ptr
        BY <2>2, <3>1
      <4> QED
        BY <1>5, <4>1, <4>2, NotTouching
    <3>3. up = With(f, bp, Block(nx, n))
      BY <2>2 DEF JoinedUp, List
    <3>4. /\ DOMAIN up = DOMAIN f \cup {bp} /\ up[bp] = Block(nx, n)
          /\ \A b \in DOMAIN f : up[b] = f[b]
      <4> HIDE DEF up, nx
      <4> QED
        BY <1>2, <3>3 DEF With
    <3> HIDE DEF up, h, nx
    <3>5. h[bp].size \in Nat /\ n <= h[bp].size
      BY <3>1
    <3>6. /\ h[q] = Block(bp, f[q].size) /\ up[q] = f[q]
          /\ \A b \in DOMAIN h \ {q} : up[b] = h[b]
      BY <1>2, <1>3, <1>5, <3>1, <3>4
    <3> QED
      BY <1>3, <1>5, <3>1, <3>2, <3>4, <3>5, <3>6
  <2> QED
    BY <2>1, <2>2
<1>7. h[q].ptr = bp /\ h[q].size = f[q].size /\ up[q].size = f[q].size /\ q # bp
  BY <1>2, <1>3, <1>4, <1>6 DEF Block
<1> HIDE DEF h, up
<1>8. CASE q + f[q].size = bp
  <2>1. q \in DOMAIN h \ {base} /\ q + h[q].size = h[q].ptr /\ h[q].ptr \notin {q}
    BY <1>2, <1>4, <1>6, <1>7, <1>8 DEF base
  <2>2. /\ Ring(Joined(h, q), {}) /\ DOMAIN Joined(h, q) = DOMAIN h \ {bp}
        /\ Joined(h, q)[q] = Block(h[bp].ptr, f[q].size + h[bp].size)
        /\ \A b \in DOMAIN h \ {q, bp} : Joined(h, q)[b] = h[b]
        /\ \A x : Covers(Joined(h, q), x) <=> Covers(h, x)
    <3>1. {q} \ {q} \subseteq {}
      OBVIOUS
    <3> QED
      <4>1. TakesIn(h, Joined(h, q), q, h[q].ptr, {})
        BY <1>6, <2>1, <3>1, JoinedRing
      <4> QED
        BY <1>7, <4>1 DEF TakesIn
  <2>3. g = With(Without(up, bp), q, Block(h[bp].ptr, f[q].size + h[bp].size))
    BY <1>6, <1>7, <1>8 DEF JoinedDown
  <2>4. Joined(h, q) = With(Without(h, bp), q, Block(h[bp].ptr, f[q].size + h[bp].size))
    BY <1>7 DEF Joined
  <2>5. \A y : With(Without(up, bp), q, y) = With(Without(h, bp), q, y)
    BY <1>6 DEF With, Without
  <2>6. g = Joined(h, q)
    BY <2>3, <2>4, <2>5
  <2>7. q \in DOMAIN g /\ g[q].size = f[q].size + h[bp].size
    BY <1>6, <1>7, <2>2, <2>6 DEF Block
  <2>8. n <= g[q].size
    BY <1>4, <1>6, <2>7
  <2>9. Ring(g, {}) /\ \A x : Covers(g, x) <=> Covers(h, x)
    BY <2>2, <2>6
  <2> HIDE DEF g
  <2> QED
    BY <1>1, <1>5, <1>6, <2>7, <2>8, <2>9 DEF List
<1>9. CASE q + f[q].size # bp
  <2>1. Ring(h, {})
    <3>1. {q} \ {q} \subseteq {}
      OBVIOUS
    <3> QED
      BY <1>6, <1>7, <1>9, <3>1, NotTouching
  <2>2. g = [up EXCEPT ![q].ptr = bp]
    BY <1>7, <1>9 DEF JoinedDown
  <2>3. g = [b \in DOMAIN h |-> h[b]]
    <3>1. [f[q] EXCEPT !.ptr = bp] = h[q]
      BY <1>4, <1>6 DEF Block
    <3> HIDE DEF g
    <3> QED
      BY <1>6, <2>2, <3>1
  <2>4. /\ DOMAIN g = DOMAIN h /\ \A b \in DOMAIN h : g[b] = h[b]
    BY <2>3
  <2> HIDE DEF g
  <2>5. Ring(g, {})
    BY <2>1, <2>4 DEF Ring, InOrder
  <2>6. \A x : Covers(g, x) <=> Covers(h, x)
    BY <2>4 DEF Covers
  <2> QED
    BY <1>1, <1>5, <1>6, <2>4, <2>5, <2>6 DEF List
<1> QED
  BY <1>8, <1>9

-----------------------------------------------------------------------------
(* What umalloc does to a free list.                                        *)

\* The block that fits and the node before it.
LEMMA FitsAt ==
  ASSUME NEW f, Ring(f, {}), NEW p \in DOMAIN f, NEW units \in Nat \ {0},
         Fits(List(f, p), units) # {}
  PROVE  LET w == Walk(List(f, p))
             n == Min(Fits(List(f, p), units))
         IN  /\ w[n - 1] \in DOMAIN f /\ w[n] \in DOMAIN f \ {base}
             /\ f[w[n - 1]].ptr = w[n] /\ units <= f[w[n]].size
<1> DEFINE w == Walk(List(f, p))
           T == Fits(List(f, p), units)
           c == Cardinality(DOMAIN f)
           n == Min(T)
<1>1. /\ c \in Nat /\ DOMAIN w = 0 .. c
      /\ \A k \in 0 .. c : w[k] \in DOMAIN f
      /\ \A k \in 1 .. c : w[k] = f[w[k - 1]].ptr
  BY RingClosed, WalkSteps
<1>2. T = {k \in DOMAIN w \ {0} : f[w[k]].size >= units}
  BY DEF Fits, List
<1> HIDE DEF w, T, c
<1>3. T \in SUBSET Nat /\ T # {}
  <2>1. T # {}
    BY DEF T
  <2> QED
    BY <1>1, <1>2, <2>1
<1>4. n \in T
  BY <1>3, MinOf
<1> HIDE DEF n
<1>5. n \in 1 .. c /\ n \in 0 .. c /\ n - 1 \in 0 .. c /\ f[w[n]].size >= units
  BY <1>1, <1>2, <1>4
<1>6. w[n] \in DOMAIN f /\ w[n - 1] \in DOMAIN f /\ w[n] = f[w[n - 1]].ptr
  BY <1>1, <1>5
<1>7. f[w[n]].size \in Nat /\ (f[w[n]].size = 0 <=> w[n] = base)
  BY <1>6, RingNode
<1>8. w[n] # base /\ units <= f[w[n]].size
  BY <1>5, <1>7
<1> QED
  BY <1>6, <1>8 DEF w, n, T

\* A whole block q taken out of the list, behind a.
Unlinked(f, a, q) == [Without(f, q) EXCEPT ![a].ptr = f[q].ptr]

\* Without q the ring is a ring, and the units of q are in no other block.
LEMMA UnlinkedRing ==
  ASSUME NEW f, Ring(f, {}), NEW a \in DOMAIN f, f[a].ptr # base
  PROVE  LET q == f[a].ptr
             g == Unlinked(f, a, q)
         IN  /\ Ring(g, {}) /\ a \in DOMAIN g
             /\ \A x : Covers(f, x) <=> Covers(g, x) \/ x \in Units(q, f[q].size)
             /\ \A x : ~ (Covers(g, x) /\ x \in Units(q, f[q].size))
<1> DEFINE D == DOMAIN f
           q == f[a].ptr
           m == f[q].ptr
           g == Unlinked(f, a, q)
<1>1. a \in Nat /\ q \in D /\ q \in Nat /\ a < q /\ f[a] = Block(q, f[a].size) /\ f[a].size \in Nat
  BY RingNode, OneLeads
<1>2. m \in D /\ m \in Nat /\ base \in D /\ D \subseteq Addr
      /\ \A b \in D : Follows(a, q, b) /\ Follows(q, m, b)
  <2>1. m \in D /\ m \in Nat /\ \A b \in D : Follows(q, m, b)
    BY <1>1, RingNode
  <2>2. \A b \in D : Follows(a, q, b)
    BY RingNode
  <2> QED
    BY <2>1, <2>2 DEF Ring
<1>3. \A b \in D : b \in Nat /\ f[b].size \in Nat
  BY RingNode
<1>4. \A b, d \in D : b < d => b + f[b].size < d
  BY DEF Ring
<1>5. /\ DOMAIN g = D \ {q} /\ g[a] = Block(m, f[a].size)
      /\ \A b \in D \ {a, q} : g[b] = f[b]
  <2> DEFINE h == Without(f, q)
  <2>1. DOMAIN h = D \ {q} /\ \A b \in D \ {q} : h[b] = f[b]
    BY DEF Without
  <2>2. g = [h EXCEPT ![a].ptr = m]
    BY DEF Unlinked
  <2>3. [Block(q, f[a].size) EXCEPT !.ptr = m] = Block(m, f[a].size)
    BY DEF Block
  <2>4. a # q /\ a \in D
    BY <1>1
  <2> HIDE DEF h, g, q, m
  <2>5. g[a] = [h[a] EXCEPT !.ptr = m]
    BY <2>1, <2>2, <2>4
  <2> QED
    BY <1>1, <2>1, <2>2, <2>3, <2>4, <2>5
<1> HIDE DEF g
<1>6. /\ \A b \in DOMAIN g : g[b].size = f[b].size
      /\ \A b \in DOMAIN g : g[b].ptr = IF b = a THEN m ELSE f[b].ptr
  BY <1>5 DEF Block
<1>7. \A b \in DOMAIN g : g[b].ptr # q
  <2> SUFFICES ASSUME NEW b \in DOMAIN g, g[b].ptr = q
               PROVE  FALSE
    OBVIOUS
  <2>1. b # a => f[b].ptr = q /\ b \in D
    BY <1>5, <1>6
  <2>2. b = a
    BY <2>1, OneLeads
  <2>3. m = q
    BY <1>6, <2>2
  <2>4. Follows(q, q, base)
    BY <1>2, <2>3
  <2> QED
    BY <1>1, <2>4 DEF Follows, base
<1>8. ASSUME NEW b \in DOMAIN g, NEW d \in DOMAIN g
      PROVE  Follows(b, g[b].ptr, d)
  <2>1. d \in D /\ d # q /\ d \in Nat /\ a \in D
    BY <1>3, <1>5
  <2>2. CASE b = a
    <3>1. Follows(a, q, d) /\ Follows(q, m, d) /\ Follows(q, m, a) /\ Follows(q, m, base)
          /\ Follows(a, q, m) /\ m # q
      BY <1>2, <1>5, <1>6, <1>7, <2>1, <2>2
    <3> HIDE DEF m, q
    <3>2. Follows(a, m, d)
      BY <1>1, <1>2, <2>1, <3>1 DEF Follows, base
    <3> QED
      BY <1>6, <2>2, <3>2
  <2>3. CASE b # a
    BY <1>5, <1>6, <2>1, <2>3, RingNode
  <2> QED
    BY <2>2, <2>3
<1>9. Ring(g, {})
  <2>1. base \in DOMAIN g /\ DOMAIN g \subseteq Addr
    BY <1>2, <1>5
  <2>2. ASSUME NEW b \in DOMAIN g
        PROVE  /\ \E u \in DOMAIN g, k \in Nat : g[b] = Block(u, k)
               /\ g[b].size = 0 <=> b = base
    <3>1. (f[b].size = 0 <=> b = base) /\ g[b].size = f[b].size
      BY <1>5, <1>6, RingNode
    <3>2. CASE b = a
      <4>1. m \in DOMAIN g
        BY <1>2, <1>5, <1>6, <1>7, <3>2
      <4> QED
        BY <1>1, <1>5, <3>1, <3>2, <4>1
    <3>3. CASE b # a
      <4>1. /\ b \in D /\ g[b] = f[b] /\ f[b] = Block(f[b].ptr, f[b].size)
            /\ f[b].ptr \in D /\ f[b].size \in Nat
        BY <1>5, <3>3, RingNode
      <4>2. f[b].ptr \in DOMAIN g
        BY <1>5, <1>7, <4>1
      <4> QED
        BY <3>1, <4>1, <4>2
    <3> QED
      BY <3>2, <3>3
  <2>3. \A b, d \in DOMAIN g : b < d => b + g[b].size <= d /\ (b \notin {} => b + g[b].size < d)
    BY <1>3, <1>4, <1>5, <1>6
  <2> QED
    BY <1>8, <2>1, <2>2, <2>3, RingIntro
<1>10. ASSUME NEW x
       PROVE  Covers(f, x) <=> Covers(g, x) \/ x \in Units(q, f[q].size)
  <2>1. Covers(g, x) <=> \E b \in D \ {q} : x \in Units(b, f[b].size)
    BY <1>5, <1>6 DEF Covers
  <2> QED
    BY <1>1, <2>1 DEF Covers
<1>11. ASSUME NEW x, Covers(g, x), x \in Units(q, f[q].size)
       PROVE  FALSE
  <2>1. PICK b \in D \ {q} : x \in Units(b, f[b].size)
    BY <1>5, <1>6, <1>11 DEF Covers
  <2>2. /\ b \in Nat /\ f[b].size \in Nat /\ q \in Nat /\ f[q].size \in Nat /\ b # q
        /\ (b < q => b + f[b].size < q) /\ (q < b => q + f[q].size < b)
    BY <1>1, <1>3, <1>4
  <2> HIDE DEF q
  <2> QED
    BY <1>11, <2>1, <2>2 DEF Units
<1> QED
  BY <1>1, <1>5, <1>9, <1>10, <1>11 DEF g

\* The tail of the block q cut off.
LEMMA ShortenedRing ==
  ASSUME NEW f, Ring(f, {}), NEW q \in DOMAIN f, NEW units \in Nat \ {0}, units < f[q].size
  PROVE  LET g == [f EXCEPT ![q].size = @ - units]
             b == q + f[q].size - units
         IN  /\ Ring(g, {}) /\ DOMAIN g = DOMAIN f
             /\ \A x : Covers(f, x) <=> Covers(g, x) \/ x \in Units(b, units)
             /\ \A x : ~ (Covers(g, x) /\ x \in Units(b, units))
<1> DEFINE g == [f EXCEPT ![q].size = @ - units]
           s == f[q].size
           b == q + s - units
<1>1. q \in Nat /\ s \in Nat /\ f[q] = Block(f[q].ptr, s) /\ q # base /\ s - units \in Nat \ {0}
  <2>1. q \in Nat /\ s \in Nat /\ f[q] = Block(f[q].ptr, s) /\ (s = 0 <=> q = base)
    BY RingNode
  <2> QED
    BY <2>1
<1>2. /\ DOMAIN g = DOMAIN f /\ g[q] = Block(f[q].ptr, s - units)
      /\ \A a \in DOMAIN f \ {q} : g[a] = f[a]
  <2>1. [f[q] EXCEPT !.size = s - units] = Block(f[q].ptr, s - units)
    BY <1>1 DEF Block
  <2> QED
    BY <2>1
<1> HIDE DEF g
<1>3. /\ \A a \in DOMAIN f : g[a].ptr = f[a].ptr
      /\ \A a \in DOMAIN f : g[a].size = IF a = q THEN s - units ELSE f[a].size
  BY <1>2 DEF Block
<1>4. \A a \in DOMAIN f : /\ a \in Nat /\ f[a].size \in Nat /\ f[a].ptr \in DOMAIN f
                          /\ f[a] = Block(f[a].ptr, f[a].size)
                          /\ (f[a].size = 0 <=> a = base)
  BY RingNode
<1>5. \A a, d \in DOMAIN f : a < d => a + f[a].size < d
  BY DEF Ring
<1>6. \A a, d \in DOMAIN f : Follows(a, f[a].ptr, d)
  BY DEF Ring, InOrder
<1> HIDE DEF s
<1>7. Ring(g, {})
  <2>1. base \in DOMAIN g /\ DOMAIN g \subseteq Addr
    BY <1>2 DEF Ring
  <2>2. ASSUME NEW a \in DOMAIN g
        PROVE  /\ \E u \in DOMAIN g, k \in Nat : g[a] = Block(u, k)
               /\ g[a].size = 0 <=> a = base
    <3>1. CASE a = q
      BY <1>1, <1>2, <1>3, <1>4, <3>1
    <3>2. CASE a # q
      BY <1>2, <1>4, <3>2
    <3> QED
      BY <3>1, <3>2
  <2>3. \A a, d \in DOMAIN g : a < d => a + g[a].size < d
    <3> SUFFICES ASSUME NEW a \in DOMAIN g, NEW d \in DOMAIN g, a < d
                 PROVE  a + g[a].size < d
      OBVIOUS
    <3>1. a + f[a].size < d /\ a \in Nat /\ d \in Nat /\ f[a].size \in Nat
      BY <1>2, <1>4, <1>5
    <3> QED
      BY <1>1, <1>2, <1>3, <3>1 DEF s
  <2>4. \A a, d \in DOMAIN g : a < d => a + g[a].size <= d /\ (a \notin {} => a + g[a].size < d)
    <3>1. \A a \in DOMAIN g : a \in Nat /\ g[a].size \in Nat
      BY <1>1, <1>2, <1>3, <1>4
    <3> QED
      BY <2>3, <3>1
  <2>5. \A a, d \in DOMAIN g : Follows(a, g[a].ptr, d)
    BY <1>2, <1>3, <1>6
  <2> QED
    BY <2>1, <2>2, <2>4, <2>5, RingIntro
<1>8. ASSUME NEW x
      PROVE  Covers(f, x) <=> Covers(g, x) \/ x \in Units(b, units)
  <2>1. x \in Units(q, s) <=> x \in Units(q, s - units) \/ x \in Units(b, units)
    BY <1>1 DEF Units
  <2>2. Covers(f, x) <=> x \in Units(q, s) \/ \E a \in DOMAIN f \ {q} : x \in Units(a, f[a].size)
    BY DEF Covers, s
  <2>3. Covers(g, x) <=> x \in Units(q, s - units)
                         \/ \E a \in DOMAIN f \ {q} : x \in Units(a, f[a].size)
    BY <1>2, <1>3 DEF Covers
  <2> QED
    BY <2>1, <2>2, <2>3
<1>9. ASSUME NEW x, Covers(g, x), x \in Units(b, units)
      PROVE  FALSE
  <2>1. PICK a \in DOMAIN f : x \in Units(a, g[a].size)
    BY <1>2, <1>9 DEF Covers
  <2>2. CASE a = q
    <3>1. x \in Units(q, s - units)
      BY <1>3, <2>1, <2>2
    <3> QED
      BY <1>1, <1>9, <3>1 DEF Units
  <2>3. CASE a # q
    <3>1. /\ a \in Nat /\ f[a].size \in Nat /\ x \in Units(a, f[a].size)
          /\ (a < q => a + f[a].size < q) /\ (q < a => q + s < a)
      BY <1>3, <1>4, <1>5, <2>1, <2>3 DEF s
    <3> QED
      BY <1>1, <1>9, <2>3, <3>1 DEF Units
  <2> QED
    BY <2>2, <2>3
<1> QED
  BY <1>2, <1>7, <1>8, <1>9 DEF g, s

\* umalloc: the units it hands out leave the list, and nothing else does.
LEMMA CutRing ==
  ASSUME NEW f, Ring(f, {}), NEW p \in DOMAIN f, NEW units \in Nat \ {0},
         Fits(List(f, p), units) # {}
  PROVE  LET cut == Cut(List(f, p), units)
             g == cut.list.free
         IN  /\ Ring(g, {}) /\ cut.list.freep \in DOMAIN g
             /\ cut.block \in Nat /\ cut.block # base
             /\ \A x : Covers(f, x) <=> Covers(g, x) \/ x \in Units(cut.block, units)
             /\ \A x : ~ (Covers(g, x) /\ x \in Units(cut.block, units))
<1> DEFINE w == Walk(List(f, p))
           n == Min(Fits(List(f, p), units))
           a == w[n - 1]
           q == w[n]
           cut == Cut(List(f, p), units)
<1>1. a \in DOMAIN f /\ q \in DOMAIN f \ {base} /\ f[a].ptr = q /\ units <= f[q].size
  BY FitsAt
<1>2. /\ f[q].size = units =>
           cut = [list |-> List(Unlinked(f, a, q), a), block |-> q]
      /\ f[q].size # units =>
           cut = [list |-> List([f EXCEPT ![q].size = @ - units], a),
                  block |-> q + f[q].size - units]
  BY DEF Cut, List, Unlinked
<1> HIDE DEF a, q, cut
<1>3. q \in Nat /\ f[q].size \in Nat
  BY <1>1, RingNode
<1>4. CASE f[q].size = units
  <2>1. /\ Ring(Unlinked(f, a, q), {}) /\ a \in DOMAIN Unlinked(f, a, q)
        /\ \A x : Covers(f, x) <=> Covers(Unlinked(f, a, q), x) \/ x \in Units(q, f[q].size)
        /\ \A x : ~ (Covers(Unlinked(f, a, q), x) /\ x \in Units(q, f[q].size))
    BY <1>1, UnlinkedRing
  <2>2. cut.list.free = Unlinked(f, a, q) /\ cut.list.freep = a /\ cut.block = q
    BY <1>2, <1>4 DEF List
  <2> QED
    BY <1>1, <1>3, <1>4, <2>1, <2>2 DEF cut
<1>5. CASE f[q].size # units
  <2> DEFINE g == [f EXCEPT ![q].size = @ - units]
             b == q + f[q].size - units
  <2>1. units < f[q].size
    BY <1>1, <1>3, <1>5
  <2>2. /\ Ring(g, {}) /\ DOMAIN g = DOMAIN f
        /\ \A x : Covers(f, x) <=> Covers(g, x) \/ x \in Units(b, units)
        /\ \A x : ~ (Covers(g, x) /\ x \in Units(b, units))
    BY <1>1, <2>1, ShortenedRing
  <2>3. cut.list.free = g /\ cut.list.freep = a /\ cut.block = b
    BY <1>2, <1>5 DEF List
  <2>4. b \in Nat /\ b # base
    BY <1>3, <2>1 DEF base
  <2> HIDE DEF g, b
  <2> QED
    BY <1>1, <2>2, <2>3, <2>4 DEF cut
<1> QED
  BY <1>4, <1>5

-----------------------------------------------------------------------------
(* The invariant.                                                           *)

Gives(x) == \E a \in DOMAIN held : x \in Units(a, held[a])

\* Before the first call there is no list.
Fresh == free = << >> /\ freep = base /\ held = << >> /\ core = {}

\* The list is a ring in which no two blocks touch, the blocks clients hold
\* are apart, and the units under management, which lie in the pages, are
\* those of the list and those of the clients: no unit is both.
HeapInv ==
  /\ PagesInv
  /\ Fresh \/ (Ring(free, {}) /\ freep \in DOMAIN free)
  /\ \A a \in DOMAIN held : a \in Nat /\ a # base /\ held[a] \in Nat \ {0}
  /\ \A a, b \in DOMAIN held : \A x : x \in Units(a, held[a]) /\ x \in Units(b, held[b]) => a = b
  /\ \A x : ~ (Covers(free, x) /\ Gives(x))
  /\ \A x : x \in core <=> Covers(free, x) \/ Gives(x)

\* The list a request starts from.
LEMMA BasedRing ==
  ASSUME HeapInv
  PROVE  /\ Based = List(Based.free, Based.freep)
         /\ Ring(Based.free, {}) /\ Based.freep \in DOMAIN Based.free
         /\ \A x : Covers(Based.free, x) <=> Covers(free, x)
<1>1. CASE Fresh
  <2> DEFINE f == [a \in {base} |-> Block(base, 0)]
  <2>1. DOMAIN free = {}
    BY <1>1 DEF Fresh
  <2>2. Based = List(f, base)
    BY <2>1 DEF Based
  <2>3. DOMAIN f = {base} /\ f[base] = Block(base, 0) /\ f[base].size = 0 /\ f[base].ptr = base
    BY DEF Block
  <2> HIDE DEF f
  <2>4. Ring(f, {})
    <3>1. DOMAIN f \subseteq Addr /\ base \in DOMAIN f /\ 0 \in Nat
      BY <2>3, AddrTyped
    <3>2. \A a, b \in DOMAIN f : Follows(a, f[a].ptr, b) /\ ~ (a < b)
      BY <2>3 DEF Follows, base
    <3> QED
      BY <2>3, <3>1, <3>2, RingIntro
  <2>5. \A x : ~ Covers(f, x) /\ ~ Covers(free, x)
    <3>1. Units(base, 0) = {}
      BY DEF Units, base
    <3> QED
      BY <2>1, <2>3, <3>1 DEF Covers
  <2> QED
    BY <2>2, <2>3, <2>4, <2>5 DEF List
<1>2. CASE Ring(free, {}) /\ freep \in DOMAIN free
  <2>1. Based = List(free, freep)
    BY <1>2 DEF Based
  <2> QED
    BY <1>2, <2>1 DEF List
<1> QED
  BY <1>1, <1>2 DEF HeapInv

\* Where the blocks of a list lie whose units are units under management.
LEMMA BlocksBelow ==
  ASSUME NEW f, Ring(f, {}), NEW top \in Nat, \A x : Covers(f, x) => x < top,
         NEW a \in DOMAIN f, a # base
  PROVE  a + f[a].size <= top
<1>1. a \in Nat /\ f[a].size \in Nat /\ f[a].size # 0
  BY RingNode
<1>2. a + f[a].size - 1 \in Units(a, f[a].size)
  BY <1>1 DEF Units
<1>3. a + f[a].size - 1 < top
  BY <1>2 DEF Covers
<1> QED
  BY <1>1, <1>3

\* A request fits once morecore has brought its units.
LEMMA MoreCore ==
  ASSUME HeapInv, NEW units \in Nat \ {0}, pages < MaxPages
  PROVE  LET l == morecore(Based, units)
         IN  /\ l = List(l.free, l.freep) /\ Ring(l.free, {}) /\ l.freep \in DOMAIN l.free
             /\ Fits(l, units) # {}
             /\ \A x : Covers(l.free, x) <=> Covers(free, x) \/ x \in Units(PageAt(pages), units)
             /\ \A x \in core : x \notin Units(PageAt(pages), units)
<1> DEFINE f == Based.free
           p == Based.freep
           bp == PageAt(pages)
           l == morecore(Based, units)
<1>1. Based = List(f, p) /\ Ring(f, {}) /\ p \in DOMAIN f
      /\ \A x : Covers(f, x) <=> Covers(free, x)
  BY BasedRing
<1>2. /\ pages \in Nat /\ PageUnits \in Nat \ {0} /\ MaxPages \in Nat
      /\ \A x \in core : x \in Nat /\ x < PageUnits * (pages + 1)
  <2>1. PageUnits * (pages + 1) \in Nat
    BY PageAssumption DEF HeapInv, PagesInv
  <2> QED
    BY <2>1, PageAssumption DEF HeapInv, PagesInv, InsideUntilExhausted, InsidePages
<1>3. bp = PageUnits * (pages + 1)
  BY DEF PageAt
<1>4. bp \in Addr /\ bp > 0
  <2>1. /\ PageUnits * (pages + 1 + 1) = bp + PageUnits
        /\ bp \in Nat /\ PageUnits <= bp
    BY <1>2, <1>3
  <2>2. pages + 1 \in Nat /\ pages + 1 <= MaxPages
    BY <1>2
  <2>3. /\ nunits(MaxBytes) \in Nat
        /\ \A x \in Nat : x < PageUnits * (pages + 1 + 1) + nunits(MaxBytes) => x \in Addr
    BY <2>2, AddrTyped, PagesBelow
  <2> HIDE DEF bp
  <2> QED
    BY <1>2, <2>1, <2>3
<1>5. \A x \in core : x \notin Units(bp, units)
  BY <1>2, <1>3, <1>4, AddrTyped DEF Units
<1>6. Clear(f, bp, units)
  <2> SUFFICES ASSUME NEW a \in DOMAIN f
               PROVE  a + f[a].size <= bp
    BY DEF Clear
  <2>1. bp \in Nat /\ \A x : Covers(f, x) => x < bp
    BY <1>1, <1>2, <1>3, <1>4, AddrTyped DEF HeapInv
  <2>2. CASE a = base
    BY <1>1, <2>1, <2>2, RingNode DEF base
  <2>3. CASE a # base
    <3> HIDE DEF f, bp
    <3> QED
      BY <1>1, <2>1, <2>3, BlocksBelow
  <2> QED
    BY <2>2, <2>3
<1> HIDE DEF f, p, bp
<1>7. /\ Ring(l.free, {}) /\ l.freep \in DOMAIN l.free
      /\ \A x : Covers(l.free, x) <=> Covers(f, x) \/ x \in Units(bp, units)
      /\ \E a \in DOMAIN l.free : units <= l.free[a].size
  <2>1. l = Freed(List(f, p), bp, units)
    BY <1>1 DEF morecore, bp
  <2> HIDE DEF l
  <2> QED
    BY <1>1, <1>4, <1>6, <2>1, FreedRing
<1>8. l = List(l.free, l.freep)
  BY DEF morecore, Freed, List
<1> HIDE DEF l
<1>9. Fits(l, units) # {}
  <2>1. PICK a \in DOMAIN l.free : units <= l.free[a].size
    BY <1>7
  <2>2. Closed(l.free, l.freep) /\ InOrder(l.free) /\ LastUnit \in Nat
        /\ DOMAIN l.free \subseteq 0 .. LastUnit
    BY <1>7, RingClosed, AddrTyped DEF Ring
  <2>3. \E n \in DOMAIN Walk(List(l.free, l.freep)) \ {0} : Walk(List(l.free, l.freep))[n] = a
    BY <2>2, WalkMeetsAll
  <2>4. PICK n \in DOMAIN Walk(l) \ {0} : Walk(l)[n] = a
    BY <1>8, <2>3
  <2>5. n \in Fits(l, units)
    <3>1. l.free[a].size \in Nat
      BY <1>7, RingNode
    <3> QED
      BY <2>1, <2>4, <3>1 DEF Fits
  <2> QED
    BY <2>5
<1> QED
  BY <1>1, <1>5, <1>7, <1>8, <1>9 DEF l, bp

\* A list of which a request is cut: what the client gets is not held, and
\* the invariant holds of what remains.
LEMMA TakenInv ==
  ASSUME HeapInv, NEW f, NEW p, Ring(f, {}), p \in DOMAIN f,
         NEW units \in Nat \ {0}, Fits(List(f, p), units) # {}, Taken(Cut(List(f, p), units), units),
         \A x : ~ (Covers(f, x) /\ Gives(x)),
         \A x : x \in core' <=> Covers(f, x) \/ Gives(x),
         PagesInv'
  PROVE  /\ HeapInv'
         /\ LET b == Cut(List(f, p), units).block
            IN  /\ b \in Nat /\ held' = With(held, b, units) /\ b \in core'
                /\ \A x : ~ (x \in Units(b, units) /\ Gives(x))
<1> DEFINE cut == Cut(List(f, p), units)
           g == cut.list.free
           b == cut.block
<1>1. /\ Ring(g, {}) /\ cut.list.freep \in DOMAIN g /\ b \in Nat /\ b # base
      /\ \A x : Covers(f, x) <=> Covers(g, x) \/ x \in Units(b, units)
      /\ \A x : ~ (Covers(g, x) /\ x \in Units(b, units))
  BY CutRing
<1>2. free' = g /\ freep' = cut.list.freep /\ held' = With(held, b, units)
  BY DEF Taken
<1> HIDE DEF cut, g, b
<1>3. b \in Units(b, units)
  BY <1>1 DEF Units
<1>4. \A a \in DOMAIN held : a \in Nat /\ a # base /\ held[a] \in Nat \ {0} /\ a \in Units(a, held[a])
  BY DEF HeapInv, Units
<1>5. b \notin DOMAIN held
  BY <1>1, <1>3, <1>4 DEF Gives
<1>6. /\ DOMAIN held' = DOMAIN held \cup {b} /\ held'[b] = units
      /\ \A a \in DOMAIN held : held'[a] = held[a]
  BY <1>2, <1>5 DEF With
<1>7. \A x : Gives(x)' <=> Gives(x) \/ x \in Units(b, units)
  BY <1>5, <1>6 DEF Gives
<1>8. \A x : Covers(free, x)' <=> Covers(g, x)
  BY <1>2 DEF Covers
<1>9. \A a, d \in DOMAIN held' : \A x :
         x \in Units(a, held'[a]) /\ x \in Units(d, held'[d]) => a = d
  <2> SUFFICES ASSUME NEW a \in DOMAIN held', NEW d \in DOMAIN held', NEW x,
                      x \in Units(a, held'[a]), x \in Units(d, held'[d]), a # d
               PROVE  FALSE
    OBVIOUS
  <2>1. \A e \in DOMAIN held : x \in Units(e, held[e]) => Gives(x)
    BY DEF Gives
  <2>2. ~ (x \in Units(b, units) /\ Gives(x))
    BY <1>1
  <2>3. CASE a \in DOMAIN held /\ d \in DOMAIN held
    BY <1>6, <2>3 DEF HeapInv
  <2>4. CASE a = b
    BY <1>6, <2>1, <2>2, <2>4
  <2>5. CASE d = b
    BY <1>6, <2>1, <2>2, <2>5
  <2> QED
    BY <1>6, <2>3, <2>4, <2>5
<1>10. (Ring(free, {}) /\ freep \in DOMAIN free)'
  BY <1>1, <1>2
<1>11. \A a \in DOMAIN held' : a \in Nat /\ a # base /\ held'[a] \in Nat \ {0}
  BY <1>1, <1>4, <1>6
<1>12. /\ \A x : ~ (Covers(free, x)' /\ Gives(x)')
       /\ \A x : x \in core' <=> Covers(free, x)' \/ Gives(x)'
  BY <1>1, <1>7, <1>8
<1>13. HeapInv'
  BY <1>9, <1>10, <1>11, <1>12 DEF HeapInv
<1>14. b \in core' /\ \A x : ~ (x \in Units(b, units) /\ Gives(x))
  BY <1>1, <1>3
<1> QED
  BY <1>1, <1>2, <1>13, <1>14 DEF b, cut

\* What umalloc gives is in core, in no block that a client holds.
Given(b, units) ==
  /\ b \in Nat /\ held' = With(held, b, units) /\ b \in core'
  /\ \A x : ~ (x \in Units(b, units) /\ Gives(x))

\* umalloc, with and without pages from morecore.
LEMMA UmallocInv ==
  ASSUME HeapInv, NEW nbytes \in Requests, umalloc(nbytes)
  PROVE  HeapInv' /\ \E b : Given(b, nunits(nbytes))
<1> DEFINE u == nunits(nbytes)
           l == morecore(Based, u)
<1>1. u \in Nat \ {0}
  BY RequestUnits
<1>2. PagesInv'
  BY AllocateInside DEF HeapInv
<1> HIDE DEF u
<1>3. CASE /\ Fits(Based, u) # {}
           /\ Taken(Cut(Based, u), u) /\ UNCHANGED << pages, core >>
  <2> DEFINE f == Based.free
             p == Based.freep
  <2>1. /\ Based = List(f, p) /\ Ring(f, {}) /\ p \in DOMAIN f
        /\ \A x : Covers(f, x) <=> Covers(free, x)
    BY BasedRing
  <2>2. \A x : ~ (Covers(f, x) /\ Gives(x)) /\ (x \in core' <=> Covers(f, x) \/ Gives(x))
    BY <1>3, <2>1 DEF HeapInv
  <2> HIDE DEF f, p
  <2>3. Fits(List(f, p), u) # {} /\ Taken(Cut(List(f, p), u), u)
    BY <1>3, <2>1
  <2>4. HeapInv' /\ Given(Cut(List(f, p), u).block, u)
    BY <1>1, <1>2, <2>1, <2>2, <2>3, TakenInv DEF Given
  <2> QED
    BY <2>4 DEF u
<1>4. CASE /\ pages < MaxPages /\ Taken(Cut(l, u), u)
           /\ pages' = Bumped(PagesFor(u))
           /\ core' = core \union Units(PageAt(pages), u)
  <2> DEFINE f == l.free
             p == l.freep
  <2>1. /\ l = List(f, p) /\ Ring(f, {}) /\ p \in DOMAIN f /\ Fits(l, u) # {}
        /\ \A x : Covers(f, x) <=> Covers(free, x) \/ x \in Units(PageAt(pages), u)
        /\ \A x \in core : x \notin Units(PageAt(pages), u)
    BY <1>1, <1>4, MoreCore
  <2>2. \A x : ~ (Covers(f, x) /\ Gives(x)) /\ (x \in core' <=> Covers(f, x) \/ Gives(x))
    <3>1. \A x : /\ ~ (Covers(free, x) /\ Gives(x))
                 /\ x \in core <=> Covers(free, x) \/ Gives(x)
      BY DEF HeapInv
    <3>2. \A x : x \in core' <=> x \in core \/ x \in Units(PageAt(pages), u)
      BY <1>4
    <3> HIDE DEF f
    <3> QED
      BY <2>1, <3>1, <3>2
  <2> HIDE DEF l, f, p
  <2>3. Fits(List(f, p), u) # {} /\ Taken(Cut(List(f, p), u), u)
    BY <1>4, <2>1
  <2>4. HeapInv' /\ Given(Cut(List(f, p), u).block, u)
    BY <1>1, <1>2, <2>1, <2>2, <2>3, TakenInv DEF Given
  <2> QED
    BY <2>4 DEF u
<1> QED
  BY <1>3, <1>4 DEF umalloc, u

\* A request that fails has only made base the list.
LEMMA UmallocFailsInv ==
  ASSUME HeapInv, NEW nbytes \in Requests, umalloc_Fails(nbytes)
  PROVE  HeapInv' /\ held' = held
<1>1. /\ Ring(Based.free, {}) /\ Based.freep \in DOMAIN Based.free
      /\ \A x : Covers(Based.free, x) <=> Covers(free, x)
  BY BasedRing
<1>2. free' = Based.free /\ freep' = Based.freep /\ held' = held /\ pages' = pages /\ core' = core
  BY DEF umalloc_Fails
<1>3. \A x : (Covers(free, x)' <=> Covers(free, x)) /\ (Gives(x)' <=> Gives(x))
  BY <1>1, <1>2 DEF Covers, Gives
<1>4. PagesInv'
  BY <1>2 DEF HeapInv, PagesInv, InsideUntilExhausted, InsidePages
<1>5. (Ring(free, {}) /\ freep \in DOMAIN free)'
  BY <1>1, <1>2
<1> QED
  BY <1>2, <1>3, <1>4, <1>5 DEF HeapInv

\* ufree moves the units of a block from a client to the list.
LEMMA UfreeInv ==
  ASSUME HeapInv, NEW bp \in DOMAIN held, ufree(bp)
  PROVE  HeapInv'
<1> DEFINE n == held[bp]
           l == Freed(List(free, freep), bp, n)
<1>1. /\ bp \in Nat /\ bp # base /\ n \in Nat \ {0} /\ bp \in Units(bp, n)
      /\ \A a \in DOMAIN held : a \in Nat /\ a # base /\ held[a] \in Nat \ {0}
  BY DEF HeapInv, Units
<1>2. Ring(free, {}) /\ freep \in DOMAIN free
  <2>1. ~ Fresh
    BY DEF Fresh
  <2> QED
    BY <2>1 DEF HeapInv
<1>3. \A x : x \in Units(bp, n) => Gives(x)
  BY DEF Gives
<1>4. bp \in Addr
  <2>1. bp \in core
    BY <1>1, <1>3 DEF HeapInv
  <2> QED
    BY <2>1 DEF HeapInv, PagesInv
<1>5. Clear(free, bp, n)
  <2> SUFFICES ASSUME NEW a \in DOMAIN free
               PROVE  a + free[a].size <= bp \/ bp + n <= a
    BY DEF Clear
  <2>1. a \in Nat /\ free[a].size \in Nat /\ (free[a].size = 0 <=> a = base)
    BY <1>2, RingNode
  <2>2. CASE a = base
    BY <1>1, <2>1, <2>2 DEF base
  <2>3. CASE a # base
    <3> SUFFICES ASSUME bp < a + free[a].size, a < bp + n
                 PROVE  FALSE
      BY <1>1, <2>1
    <3>1. \A x : x \in Units(a, free[a].size) => Covers(free, x)
      BY DEF Covers
    <3>2. \A x : ~ (x \in Units(a, free[a].size) /\ x \in Units(bp, n))
      BY <1>3, <3>1 DEF HeapInv
    <3>3. bp >= a => bp \in Units(a, free[a].size) /\ bp \in Units(bp, n)
      BY <1>1, <2>1 DEF Units
    <3>4. a >= bp => a \in Units(a, free[a].size) /\ a \in Units(bp, n)
      BY <1>1, <2>1, <2>3 DEF Units
    <3> HIDE DEF n
    <3> QED
      BY <1>1, <2>1, <3>2, <3>3, <3>4
  <2> QED
    BY <2>2, <2>3
<1> HIDE DEF n
<1>6. /\ Ring(l.free, {}) /\ l.freep \in DOMAIN l.free
      /\ \A x : Covers(l.free, x) <=> Covers(free, x) \/ x \in Units(bp, n)
  <2>1. bp > 0
    BY <1>1 DEF base
  <2> QED
    BY <1>1, <1>2, <1>4, <1>5, <2>1, FreedRing
<1>7. /\ free' = l.free /\ freep' = l.freep /\ held' = Without(held, bp)
      /\ pages' = pages /\ core' = core
  BY DEF ufree, n
<1> HIDE DEF l
<1>8. /\ DOMAIN held' = DOMAIN held \ {bp} /\ \A a \in DOMAIN held \ {bp} : held'[a] = held[a]
  BY <1>7 DEF Without
<1>9. \A x : Covers(free, x)' <=> Covers(free, x) \/ x \in Units(bp, n)
  BY <1>6, <1>7 DEF Covers
<1>10. \A x : Gives(x) <=> Gives(x)' \/ x \in Units(bp, n)
  BY <1>8 DEF Gives, n
<1>11. \A x : ~ (Gives(x)' /\ x \in Units(bp, n))
  <2> SUFFICES ASSUME NEW x, Gives(x)', x \in Units(bp, n)
               PROVE  FALSE
    OBVIOUS
  <2>1. PICK a \in DOMAIN held \ {bp} : x \in Units(a, held[a])
    BY <1>8 DEF Gives
  <2> QED
    BY <2>1 DEF HeapInv, n
<1>12. /\ \A x : ~ (Covers(free, x)' /\ Gives(x)')
       /\ \A x : x \in core' <=> Covers(free, x)' \/ Gives(x)'
  <2>1. \A x : ~ (Covers(free, x) /\ Gives(x)) /\ (x \in core <=> Covers(free, x) \/ Gives(x))
    BY DEF HeapInv
  <2> QED
    BY <1>7, <1>9, <1>10, <1>11, <2>1
<1>13. /\ \A a \in DOMAIN held' : a \in Nat /\ a # base /\ held'[a] \in Nat \ {0}
       /\ \A a, b \in DOMAIN held' : \A x :
             x \in Units(a, held'[a]) /\ x \in Units(b, held'[b]) => a = b
  BY <1>1, <1>8 DEF HeapInv
<1>14. (Ring(free, {}) /\ freep \in DOMAIN free)'
  BY <1>6, <1>7
<1>15. PagesInv'
  BY <1>7 DEF HeapInv, PagesInv, InsideUntilExhausted, InsidePages
<1> QED
  BY <1>12, <1>13, <1>14, <1>15 DEF HeapInv

\* Nothing is managed before the first call.
LEMMA HeapInvInit == Init => HeapInv
<1> SUFFICES ASSUME Init
             PROVE  HeapInv
  OBVIOUS
<1>1. Fresh /\ pages = 0 /\ DOMAIN held = {} /\ DOMAIN free = {}
  BY DEF Init, Fresh
<1>2. PagesInv
  BY <1>1, PageAssumption DEF PagesInv, InsideUntilExhausted, InsidePages, Fresh
<1>3. \A x : ~ Covers(free, x) /\ ~ Gives(x) /\ x \notin core
  BY <1>1 DEF Covers, Gives, Fresh
<1> QED
  BY <1>1, <1>2, <1>3 DEF HeapInv

\* Every call keeps the invariant.
LEMMA HeapInvNext == HeapInv /\ [Next]_vars => HeapInv'
<1> SUFFICES ASSUME HeapInv, [Next]_vars
             PROVE  HeapInv'
  OBVIOUS
<1>1. ASSUME NEW nbytes \in Requests, umalloc(nbytes)
      PROVE  HeapInv'
  BY <1>1, UmallocInv
<1>2. ASSUME NEW nbytes \in Requests, umalloc_Fails(nbytes)
      PROVE  HeapInv'
  BY <1>2, UmallocFailsInv
<1>3. ASSUME NEW bp \in DOMAIN held, ufree(bp)
      PROVE  HeapInv'
  BY <1>3, UfreeInv
<1>4. CASE UNCHANGED vars
  <2>1. free' = free /\ freep' = freep /\ held' = held /\ pages' = pages /\ core' = core
    BY <1>4 DEF vars
  <2>2. \A x : (Covers(free, x)' <=> Covers(free, x)) /\ (Gives(x)' <=> Gives(x))
    BY <2>1 DEF Covers, Gives
  <2>3. PagesInv' /\ (Ring(free, {})' <=> Ring(free, {})) /\ (Fresh' <=> Fresh)
    BY <2>1 DEF HeapInv, PagesInv, InsideUntilExhausted, InsidePages, Ring, InOrder, Fresh
  <2> QED
    BY <2>1, <2>2, <2>3 DEF HeapInv
<1> QED
  BY <1>1, <1>2, <1>3, <1>4 DEF Next

-----------------------------------------------------------------------------
(* The theorems.                                                            *)

\* A search meets every block of the list.
LEMMA AllListed ==
  ASSUME HeapInv
  PROVE  Listed = DOMAIN free
<1>1. CASE Fresh
  BY <1>1 DEF Fresh, Listed
<1>2. CASE Ring(free, {}) /\ freep \in DOMAIN free
  <2> DEFINE w == Walk(List(free, freep))
  <2>1. Closed(free, freep) /\ InOrder(free) /\ LastUnit \in Nat
        /\ DOMAIN free \subseteq 0 .. LastUnit
    BY <1>2, RingClosed, AddrTyped DEF Ring
  <2>2. \A b \in DOMAIN free : \E n \in DOMAIN w \ {0} : w[n] = b
    BY <2>1, WalkMeetsAll
  <2>3. \A n \in DOMAIN w : w[n] \in DOMAIN free
    BY <2>1, WalkSteps
  <2>4. free # << >>
    BY <1>2
  <2>5. Listed = {w[n] : n \in DOMAIN w}
    BY <2>4 DEF Listed
  <2> HIDE DEF w
  <2> QED
    BY <2>2, <2>3, <2>5
<1> QED
  BY <1>1, <1>2 DEF HeapInv

\* The ring has the units that the invariant says it covers.
LEMMA HeapLosesNothing == HeapInv => NothingLost
<1> SUFFICES ASSUME HeapInv
             PROVE  NothingLost
  OBVIOUS
<1>1. Listed = DOMAIN free
  BY AllListed
<1>2. \A x : (x \in FreeUnits <=> Covers(free, x)) /\ (x \in HeldUnits <=> Gives(x))
  BY <1>1 DEF FreeUnits, HeldUnits, Covers, Gives
<1>3. core = FreeUnits \union HeldUnits /\ FreeUnits \intersect HeldUnits = {}
  BY <1>2 DEF HeapInv
<1>4. ASSUME NEW a \in Listed, NEW b \in Listed, a # b
      PROVE  Units(a, free[a].size) \intersect Units(b, free[b].size) = {}
  <2>1. Ring(free, {})
    BY <1>1 DEF HeapInv, Fresh
  <2>2. /\ a \in Nat /\ b \in Nat /\ free[a].size \in Nat /\ free[b].size \in Nat
        /\ a \in DOMAIN free /\ b \in DOMAIN free
    BY <1>1, <2>1, RingNode
  <2>3. (a < b => a + free[a].size <= b) /\ (b < a => b + free[b].size <= a)
    BY <2>1, <2>2 DEF Ring
  <2> QED
    BY <1>4, <2>2, <2>3 DEF Units
<1>5. ASSUME NEW a \in DOMAIN held, NEW b \in DOMAIN held, a # b
      PROVE  Units(a, held[a]) \intersect Units(b, held[b]) = {}
  BY <1>5 DEF HeapInv
<1> QED
  BY <1>3, <1>4, <1>5 DEF NothingLost

\* In the ring no block touches the next.
LEMMA HeapCoalesced == HeapInv => Coalesced
<1> SUFFICES ASSUME HeapInv, NEW a \in DOMAIN free \ {base}
             PROVE  a + free[a].size \notin DOMAIN free
  BY DEF Coalesced
<1>1. Ring(free, {})
  BY DEF HeapInv, Fresh
<1>2. a \in Nat /\ free[a].size \in Nat /\ free[a].size # 0
  BY <1>1, RingNode
<1>3. \A b \in DOMAIN free : a < b => a + free[a].size < b
  BY <1>1 DEF Ring
<1> QED
  BY <1>2, <1>3

\* Whatever clients ask for and give back, and wherever the last search left
\* freep, ufree and umalloc lose no unit and enter none twice.
THEOREM UnitsKept == Spec => []NothingLost
  BY HeapInvInit, HeapInvNext, HeapLosesNothing, PTL DEF Spec

\* ufree merges a block with whatever it touches: no free block touches another.
THEOREM FreeMerged == Spec => []Coalesced
  BY HeapInvInit, HeapInvNext, HeapCoalesced, PTL DEF Spec

\* An allocation of the abstract heap.
LEMMA GivenAllocates ==
  ASSUME HeapInv', NEW nbytes \in Requests, NEW b, Given(b, nunits(nbytes))
  PROVE  AbstractHeap!Next
<1> DEFINE n == nunits(nbytes)
<1>1. b \in Addr
  BY DEF Given, HeapInv, PagesInv
<1>2. AbstractHeap!Units(b, n) \intersect AbstractHeap!HeldUnits = {}
  BY DEF Given, Gives, Units, AbstractHeap!Units, AbstractHeap!HeldUnits
<1>3. held' = [a \in DOMAIN held \union {b} |-> IF a = b THEN n ELSE held[a]]
  BY DEF Given, With
<1>4. AbstractHeap!Allocate(n)
  BY <1>1, <1>2, <1>3 DEF AbstractHeap!Allocate
<1> QED
  BY <1>4 DEF AbstractHeap!Next

\* For every page size and every set of requests the free list is an
\* allocator: a unit a client holds is handed to no other.
THEOREM ListImplementsHeap == Spec => ImplementsHeap
<1>1. Init => AbstractHeap!Init
  BY DEF Init, AbstractHeap!Init
<1>2. HeapInv /\ HeapInv' /\ [Next]_vars => [AbstractHeap!Next]_held
  <2> SUFFICES ASSUME HeapInv, HeapInv', [Next]_vars
               PROVE  [AbstractHeap!Next]_held
    OBVIOUS
  <2>1. ASSUME NEW nbytes \in Requests, umalloc(nbytes)
        PROVE  AbstractHeap!Next
    BY <2>1, UmallocInv, GivenAllocates
  <2>2. ASSUME NEW nbytes \in Requests, umalloc_Fails(nbytes)
        PROVE  held' = held
    BY <2>2, UmallocFailsInv
  <2>3. ASSUME NEW bp \in DOMAIN held, ufree(bp)
        PROVE  AbstractHeap!Next
    BY <2>3 DEF ufree, Without, AbstractHeap!Next, AbstractHeap!Release
  <2>4. CASE UNCHANGED vars
    BY <2>4 DEF vars
  <2> QED
    BY <2>1, <2>2, <2>3, <2>4 DEF Next
<1> QED
  BY <1>1, <1>2, HeapInvInit, HeapInvNext, PTL DEF Spec, ImplementsHeap, AbstractHeap!Spec
=============================================================================
