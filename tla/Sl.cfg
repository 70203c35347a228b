SPECIFICATION Spec
CONSTANTS
  NULL = NULL
  Sched = sched
  Idle = idle
  Kthds = {k1, k2}
  MaxAhead = 1
INVARIANTS MutualExclusion AssertionsHold BlockedStayOut KthdCurrent NoLostWakeup
PROPERTY SectionLeft
