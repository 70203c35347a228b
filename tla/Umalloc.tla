------------------------------ MODULE Umalloc -------------------------------
(***************************************************************************)
(* umalloc and ufree of umalloc.c: one circular list of free blocks in     *)
(* address order, searched from freep, whose neighbours are merged.  An    *)
(* address counts units of sizeof(Header); a block is named by its header. *)
(* base, of size 0, lies below all pages.  The threads of one kernel       *)
(* thread call the two functions one after the other.                      *)
(*                                                                         *)
(* cos_page_bump_alloc gives one page behind the other until they have run *)
(* out, which is for good, as no page is given back.  morecore looks only  *)
(* at the first page of a request, so the last block may reach beyond the  *)
(* pages; where the processor stops at a store there, the behaviour ends   *)
(* early, as a behaviour of the model may.                                 *)
(***************************************************************************)
EXTENDS Naturals, FiniteSets, FiniteSetsExt

CONSTANTS PageUnits,   \* units in a page: 4096 / sizeof(Header)
          MaxPages,    \* bound: pages cos_page_bump_alloc can give
          Requests,    \* bound: the numbers of bytes clients ask for
          MaxBytes     \* bound: none of them is bigger

ASSUME PageAssumption == PageUnits \in Nat \ {0} /\ MaxPages \in Nat
ASSUME RequestAssumption == MaxBytes \in Nat /\ Requests \subseteq 0 .. MaxBytes

HeaderBytes == 8       \* sizeof(Header) on a 32-bit machine

VARIABLES free,        \* free[a]: ptr and size in the header of the free block at a
          freep,       \* where the next search begins
          held,        \* held[a]: size in the header of the block clients hold at a
          pages,       \* pages taken from cos_page_bump_alloc
          core         \* history: the units morecore has put under management

vars == << free, freep, held, pages, core >>

nunits(nbytes) == (nbytes + HeaderBytes - 1) \div HeaderBytes + 1

\* base, the pages, and what a block that begins in the last page can reach.
base == 0
LastUnit == PageUnits * (MaxPages + 1) + nunits(MaxBytes)
Addr == 0 .. LastUnit
Units(a, n) == a .. (a + n - 1)

\* A header together with the list it is looked up in.
Block(ptr, size) == [ptr |-> ptr, size |-> size]
List(f, p) == [free |-> f, freep |-> p]
Without(f, a) == [b \in DOMAIN f \ {a} |-> f[b]]
With(f, a, e) == [b \in DOMAIN f \union {a} |-> IF b = a THEN e ELSE f[b]]

\* The nodes a search meets: Walk(l)[0] is freep, the next its ptr, and so on.
Walk(l) ==
  LET walk[n \in 0 .. Cardinality(DOMAIN l.free)] ==
        IF n = 0 THEN l.freep ELSE l.free[walk[n - 1]].ptr
  IN  walk

(***************************************************************************)
(* ufree.                                                                  *)
(***************************************************************************)
\* Fault: the successor is not looked at before the end of the list.
GoesAfter_AnyLower(l, p, bp) ==
  \/ bp > p
  \/ p >= l.free[p].ptr /\ (bp > p \/ bp < l.free[p].ptr)

\* The loop of ufree stops at p: bp lies between p and its successor, or
\* beyond the end of the list.
GoesAfter(l, p, bp) ==
  LET next == l.free[p].ptr
  IN  \/ bp > p /\ bp < next
      \/ p >= next /\ (bp > p \/ bp < next)

\* Where the loop stops, as numbers of steps.
Stops(l, bp) ==
  { n \in DOMAIN Walk(l) : GoesAfter(l, Walk(l)[n], bp) }

\* Fault: the size of the block behind is not added.
JoinedUp_SizeKept(l, p, bp, n) ==
  LET next == l.free[p].ptr
  IN  IF bp + n = next
      THEN With(Without(l.free, next), bp, Block(l.free[next].ptr, n))
      ELSE With(l.free, bp, Block(next, n))

\* The block bp of size n is merged with the free block behind it.
JoinedUp(l, p, bp, n) ==
  LET next == l.free[p].ptr
  IN  IF bp + n = next
      THEN With(Without(l.free, next), bp,
                Block(l.free[next].ptr, n + l.free[next].size))
      ELSE With(l.free, bp, Block(next, n))

\* ... and then with the free block before it.
JoinedDown(f, p, bp) ==
  IF p + f[p].size = bp
  THEN With(Without(f, bp), p, Block(f[bp].ptr, f[p].size + f[bp].size))
  ELSE [f EXCEPT ![p].ptr = bp]

Freed(l, bp, n) ==
  LET p == Walk(l)[Min(Stops(l, bp))]
  IN  List(JoinedDown(JoinedUp(l, p, bp, n), p, bp), p)

ufree(bp) ==
  /\ bp \in DOMAIN held
  /\ LET l == Freed(List(free, freep), bp, held[bp])
     IN  free' = l.free /\ freep' = l.freep
  /\ held' = Without(held, bp)
  /\ UNCHANGED << pages, core >>

(***************************************************************************)
(* umalloc.                                                                *)
(***************************************************************************)
\* The first call makes base the only node of the list.
Based == IF DOMAIN free = {} THEN List([a \in {base} |-> Block(base, 0)], base)
                             ELSE List(free, freep)

\* The search meets a block that is big enough after n steps.
Fits(l, units) ==
  { n \in DOMAIN Walk(l) \ {0} : l.free[Walk(l)[n]].size >= units }

\* Fault: the free block keeps the size it had before the tail was cut.
Cut_SizeKept(l, units) ==
  LET n == Min(Fits(l, units))
      prevp == Walk(l)[n - 1]
      p == Walk(l)[n]
  IN  IF l.free[p].size = units
      THEN [list |-> List([Without(l.free, p) EXCEPT ![prevp].ptr = l.free[p].ptr],
                          prevp),
            block |-> p]
      ELSE [list |-> List(l.free, prevp),
            block |-> p + l.free[p].size - units]

\* A block of the size itself is unlinked, of a bigger one the tail is cut.
Cut(l, units) ==
  LET n == Min(Fits(l, units))
      prevp == Walk(l)[n - 1]
      p == Walk(l)[n]
  IN  IF l.free[p].size = units
      THEN [list |-> List([Without(l.free, p) EXCEPT ![prevp].ptr = l.free[p].ptr],
                          prevp),
            block |-> p]
      ELSE [list |-> List([l.free EXCEPT ![p].size = @ - units], prevp),
            block |-> p + l.free[p].size - units]

\* Fault: the page taken first is counted again.
PagesFor_FirstForgotten(units) ==
  IF units < PageUnits THEN 1 ELSE units \div PageUnits

\* morecore asks for one page and one more for every full page in the request.
PagesFor(units) == 1 + units \div PageUnits
PageAt(n) == PageUnits * (n + 1)

\* The pages there are after k calls of cos_page_bump_alloc: once they have
\* run out the rest of the calls fail, and nobody looks at their results.
Bumped(k) == IF pages + k <= MaxPages THEN pages + k ELSE MaxPages

\* With its first page there, morecore enters all units asked for into the
\* list, and no more, whether or not the other pages have been had.
morecore(l, units) == Freed(l, PageAt(pages), units)

Taken(cut, units) ==
  /\ free' = cut.list.free /\ freep' = cut.list.freep
  /\ held' = With(held, cut.block, units)

umalloc(nbytes) ==
  LET units == nunits(nbytes)
  IN  IF Fits(Based, units) # {}
      THEN Taken(Cut(Based, units), units) /\ UNCHANGED << pages, core >>
      ELSE /\ pages < MaxPages
           /\ Taken(Cut(morecore(Based, units), units), units)
           /\ pages' = Bumped(PagesFor(units))
           /\ core' = core \union Units(PageAt(pages), units)

\* The first page is not there, for which umalloc returns 0, with freep set by
\* a first call.
umalloc_Fails(nbytes) ==
  /\ Fits(Based, nunits(nbytes)) = {}
  /\ pages >= MaxPages
  /\ free' = Based.free /\ freep' = Based.freep
  /\ UNCHANGED << held, pages, core >>

Init ==
  /\ free = << >> /\ freep = base
  /\ held = << >> /\ pages = 0 /\ core = {}

Next ==
  \/ \E nbytes \in Requests : umalloc(nbytes) \/ umalloc_Fails(nbytes)
  \/ \E bp \in DOMAIN held : ufree(bp)

Spec == Init /\ [][Next]_vars

(***************************************************************************)
(* Properties.                                                             *)
(***************************************************************************)
\* The blocks a search can meet.
Listed == IF free = << >> THEN {}
          ELSE { Walk(List(free, freep))[n] :
                   n \in DOMAIN Walk(List(free, freep)) }

FreeUnits == UNION { Units(a, free[a].size) : a \in Listed }
HeldUnits == UNION { Units(a, held[a]) : a \in DOMAIN held }

\* Every unit morecore obtained is in one block that a search meets or that a
\* client holds, and in no second one: none is lost to the list when blocks
\* are merged and cut, and none is entered twice or handed out twice.
NothingLost ==
  /\ core = FreeUnits \union HeldUnits /\ FreeUnits \intersect HeldUnits = {}
  /\ \A a, b \in Listed :
        a # b => Units(a, free[a].size) \intersect Units(b, free[b].size) = {}
  /\ \A a, b \in DOMAIN held :
        a # b => Units(a, held[a]) \intersect Units(b, held[b]) = {}

\* No two free blocks touch: ufree merges on both sides, so a region whose
\* blocks have all come back is one block again; that needs the list in the
\* order of addresses, wherever freep was left.
Coalesced ==
  \A a \in DOMAIN free \ {base} : a + free[a].size \notin DOMAIN free

\* What morecore enters into the list, and so what clients are given, lies in
\* the pages it has taken.  The code does not keep this when the pages run out
\* within a request, because it looks at the first page only.
InsidePages == core \subseteq PageUnits .. (PageUnits * (pages + 1) - 1)

\* As long as there are pages, also for requests that fill theirs exactly, no
\* block reaches into the page a later request will begin with.
InsideUntilExhausted == pages < MaxPages => InsidePages

\* For its clients the list with its merging and cutting is an allocator:
\* never is a unit handed out that another client still holds.
AbstractHeap ==
  INSTANCE Heap WITH Addresses <- Addr,
                     Sizes <- { nunits(b) : b \in Requests }
ImplementsHeap == AbstractHeap!Spec

=============================================================================
