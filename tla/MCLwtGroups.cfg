SPECIFICATION Spec
CONSTANTS
  NULL = NULL
  MainThread = main
  Threads = {main, t1, t2}
  Chans = {c1, c2, c3, c4}
  Groups = {g1}
  Data = {d1}
  Sizes = {1}
  MaxDrift = 1
  MaxRefs = 1
  Ops = {"lwt_create_chan", "lwt_chan", "lwt_snd", "lwt_rcv", "lwt_cgrp",
         "lwt_cgrp_add", "lwt_cgrp_rem", "lwt_cgrp_free", "lwt_cgrp_wait", "lwt_yield"}
  Careless = {}
SYMMETRY Symmetry
INVARIANTS TypeOK NobodyMisplaced NobodyForgotten OwnersAwake BlockedOwnersWait EventHonoured GroupsPartition
PROPERTY ImplementsFifo
CHECK_DEADLOCK FALSE
