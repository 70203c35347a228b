SPECIFICATION Spec
CONSTANTS
  NULL = NULL
  MainThread = main
  Threads = {main, t1, t2}
  Chans = {c1, c2, c3, c4}
  Groups = {}
  Data = {d1, d2}
  Sizes = {0, 1}
  MaxDrift = 1
  MaxRefs = 2
  Ops = {"lwt_create_chan", "lwt_chan", "lwt_snd", "lwt_rcv", "lwt_yield"}
  Careless = {}
SYMMETRY Symmetry
INVARIANTS CountersExact EventsVisible ReceiversAwake
PROPERTIES ImplementsFifo SentIsPending
CHECK_DEADLOCK FALSE
