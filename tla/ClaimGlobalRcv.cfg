SPECIFICATION FairSpec
CONSTANTS
  NULL = NULL
  Threads = {main, rcvr}
  MainThread = main
  Receiver = rcvr
  Chans = {}
  MaxDrift = 0
  Senders = {k1}
  Size = 2
  MaxSends = 1
  MaxPending = 2
  MainReturns = FALSE
PROPERTY BlockedReceiverGoesOn
