SPECIFICATION Spec
CONSTANTS
  NULL = NULL
  Sched = sched
  Idle = idle
  Kthds = {k1, k2}
  MaxAhead = 2
INVARIANT NoLostWakeup
