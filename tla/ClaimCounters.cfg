SPECIFICATION Spec
CONSTANTS
  NULL = NULL
  MainThread = main
  Threads = {main, t1}
  Chans = {c1, c2, c3}
  Groups = {g1}
  Data = {d1}
  Sizes = {1}
  MaxDrift = 1
  MaxRefs = 1
  Ops = {"lwt_create_chan", "lwt_chan", "lwt_snd", "lwt_rcv", "lwt_cgrp", "lwt_cgrp_add", "lwt_cgrp_wait"}
  Careless = {}
SYMMETRY Symmetry
INVARIANT CountersExact
CHECK_DEADLOCK FALSE
