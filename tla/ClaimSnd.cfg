SPECIFICATION Spec
CONSTANTS
  NULL = NULL
  MainThread = main
  Threads = {main, t1}
  Chans = {c1, c2, c3}
  Groups = {g1}
  Data = {d1}
  Sizes = {0, 1}
  MaxDrift = 1
  MaxRefs = 1
  Ops = {"lwt_create_chan", "lwt_chan", "lwt_snd", "lwt_rcv", "lwt_cgrp", "lwt_cgrp_add", "lwt_cgrp_wait", "lwt_yield"}
  Careless = {"wait_after_rcv"}
SYMMETRY Symmetry
PROPERTY SentIsPending
CHECK_DEADLOCK FALSE
