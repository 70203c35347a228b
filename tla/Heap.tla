-------------------------------- MODULE Heap --------------------------------
(***************************************************************************)
(* What an allocator promises its clients: a block of the size asked for   *)
(* that shares no unit with a block still held, until it is given back.    *)
(* Where the block lies is the allocator's choice.  Umalloc implements it. *)
(***************************************************************************)
EXTENDS Naturals

CONSTANTS Addresses, Sizes

VARIABLE held    \* held[a]: the size of the block held at address a

Units(a, n) == a .. (a + n - 1)

HeldUnits == UNION { Units(a, held[a]) : a \in DOMAIN held }

Init == held = << >>

Allocate(n) ==
  \E a \in Addresses :
     /\ Units(a, n) \intersect HeldUnits = {}
     /\ held' = [b \in DOMAIN held \union {a} |-> IF b = a THEN n ELSE held[b]]

Release(a) ==
  /\ a \in DOMAIN held
  /\ held' = [b \in DOMAIN held \ {a} |-> held[b]]

Next == \/ \E n \in Sizes : Allocate(n)
        \/ \E a \in DOMAIN held : Release(a)

Spec == Init /\ [][Next]_held
=============================================================================
