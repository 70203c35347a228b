SPECIFICATION Spec
CONSTANTS
  NULL = NULL
  MainThread = main
  Threads = {main, t1, t2}
  Chans = {c1, c2, c3}
  Groups = {}
  Data = {d1}
  Sizes = {1}
  MaxDrift = 1
  MaxRefs = 2
  Ops = {"lwt_create_chan", "lwt_chan", "lwt_snd_chan", "lwt_rcv_chan", "lwt_chan_deref", "lwt_create", "lwt_join", "lwt_die", "LWT_NOJOIN"}
  Careless = {}
SYMMETRY Symmetry
INVARIANTS NobodyMisplaced NobodyForgotten LastWordFirst NoStaleEvent CountersExact NoUseAfterFree
           ReceiversAwake
PROPERTY ImplementsFifo
CHECK_DEADLOCK FALSE
