SPECIFICATION Spec
CONSTANTS
  PageUnits = 3
  MaxPages = 5
  Requests = {0, 9, 24}
  MaxBytes = 24
INVARIANTS NothingLost Coalesced InsideUntilExhausted
PROPERTY ImplementsHeap
