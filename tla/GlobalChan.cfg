SPECIFICATION Spec
CONSTANTS
  NULL = NULL
  Threads = {main, rcvr}
  MainThread = main
  Receiver = rcvr
  Chans = {}
  MaxDrift = 0
  Senders = {k1, k2}
  Size = 2
  MaxSends = 2
  MaxPending = 3
  MainReturns = TRUE
INVARIANTS RingKeepsMessages EveryMessageAnnounced SleepsAlone LocksHaveHolders
CHECK_DEADLOCK FALSE
