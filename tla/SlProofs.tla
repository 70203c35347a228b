------------------------------ MODULE SlProofs ------------------------------
(***************************************************************************)
(* Proofs about Sl: one thread at a time is in the critical section; a     *)
(* thread that runs client code can run and is the current kernel thread;  *)
(* and no wakeup is lost while there is one for each block.  For any       *)
(* number of threads and any placement of preemptions.                     *)
(***************************************************************************)
EXTENDS Sl, FiniteSetTheorems, TLAPS

-----------------------------------------------------------------------------
(* The inductive invariant.                                                 *)

CanRun(t) == state[t] \in {"SL_THD_RUNNABLE", "SL_THD_WOKEN"}

\* Between Schedule and Switch.
Chose(t) == ret[t] = "switch" /\ pc[t] \in ExitPlaces \cup {"switch"}

\* In client code, or in a call whose outcome does not depend on a choice.
Settled(t) ==
  \/ pc[t] \in {"client", "body"}
  \/ pc[t] \in EnterPlaces /\ ret[t] = "body"
  \/ pc[t] \in ExitPlaces /\ ret[t] = "client"

\* Where the functions return to, and what the locals say.
LocalsInv(t) ==
  /\ pc[t] \in EnterPlaces => ret[t] \in {"body", "schedule"}
  /\ pc[t] \in ExitPlaces => ret[t] \in {"client", "switch"}
  /\ pc[t] = "enter_cas" => cached[t].owner = NULL
  /\ pc[t] \in {"enter_mark", "enter_switch"} => cached[t].owner \in Callers \ {t}
  /\ picked[t] \in Kthds \cup {Idle}
  /\ op[t] = "wakeup" => target[t] \in Kthds
  /\ op[t] # "loop" => pc[t] = "body" \/ (pc[t] \in EnterPlaces /\ ret[t] = "body")

\* The lock word tells who is in the critical section.
LockInv(t) ==
  /\ InSection(t) => lock.owner = t
  /\ lock.owner = t => InSection(t) \/ pc[t] = "schedule"

\* A token that would be accepted was taken by the thread that runs, or by the
\* one the scheduler thread has interrupted: nobody else has run since.
TokenInv(t) ==
  /\ tok[t] \/ stok[t] => cpu \in {t, Sched}
  /\ tok[t] /\ cpu = t /\ pc[t] \in {"enter_mark", "enter_switch"} =>
       cached[t].owner = lock.owner
  /\ stok[t] => Chose(t)
  /\ stok[t] /\ cpu = t =>
       current_kthd = picked[t] /\ (picked[t] \in Kthds => CanRun(picked[t]))

\* The thread that runs, and the one that is lent the processor in order to
\* leave the critical section, can run and are current.
RunningInv(t) ==
  Settled(t) /\ (cpu = t \/ lock.owner = t) => current_kthd = t /\ CanRun(t)

SlInv ==
  /\ \A t \in Callers : LocalsInv(t) /\ LockInv(t) /\ TokenInv(t)
  /\ \A t \in Kthds : RunningInv(t)
  /\ \A t \in ready : CanRun(t)
-----------------------------------------------------------------------------
\* After sl_init nobody is in the library, and the invariant holds.
THEOREM SlInvInit == Init => SlTypeOK /\ SlInv
  BY SlAssumption DEF Init, SlTypeOK, SlInv, LocalsInv, LockInv, TokenInv, RunningInv,
    InSection, Chose, Settled, CanRun, Callers, Thds, Word, Unlocked, States, Calls, Places,
    EnterPlaces, ExitPlaces

\* Whether cos_defswitch is accepted or not, its results are well typed.
LEMMA SwitchedTypes ==
  ASSUME SlTypeOK, NEW accepted \in BOOLEAN, NEW u \in Thds, Switched(accepted, u)
  PROVE  cpu' \in Thds /\ tok' \in [Callers -> BOOLEAN] /\ stok' \in [Callers -> BOOLEAN]
  BY DEF SlTypeOK, Switched

\* One lemma for each action: the types, the lock, the tokens, the thread that runs.

\* A token of sl_cs_enter or sl_cs_exit; the older ones of others are not touched.
LEMMA SyncStep ==
  ASSUME SlTypeOK, SlInv, NEW t \in Callers, Sync(t)
  PROVE  SlTypeOK' /\ SlInv'
<1> USE SlAssumption DEF Sync, At, callVars, Callers, EnterPlaces, ExitPlaces
<1>1. SlTypeOK'
  BY DEF SlTypeOK, SlInv, LocalsInv, Thds, Word, Unlocked, States, Calls, Places
<1>2. \A u \in Callers : LocalsInv(u)'
  BY DEF SlTypeOK, SlInv, LocalsInv, LockInv, InSection, Thds, Word, Unlocked
<1>3. \A u \in Callers : LockInv(u)'
  BY DEF SlTypeOK, SlInv, LocalsInv, LockInv, InSection, Word, Unlocked
<1>4. \A u \in Callers : TokenInv(u)'
  BY DEF SlTypeOK, SlInv, LocalsInv, LockInv, TokenInv, InSection, Chose, CanRun, Thds, Word, Unlocked
<1>5. \A u \in Kthds : RunningInv(u)'
  BY DEF SlTypeOK, SlInv, LocalsInv, LockInv, TokenInv, RunningInv, InSection, Settled, Chose, CanRun, Thds, Word, Unlocked
<1>6. (\A u \in ready : CanRun(u))'
  BY DEF SlTypeOK, SlInv, CanRun
<1> QED
  BY <1>1, <1>2, <1>3, <1>4, <1>5, <1>6 DEF SlInv

\* The owner read is another thread: who is in the section does not enter it.
LEMMA EnterReadStep ==
  ASSUME SlTypeOK, SlInv, NEW t \in Callers, EnterRead(t)
  PROVE  SlTypeOK' /\ SlInv'
<1> USE SlAssumption DEF EnterRead, At, callVars, Callers, EnterPlaces, ExitPlaces
<1>1. SlTypeOK'
  BY DEF SlTypeOK, SlInv, LocalsInv, Thds, Word, Unlocked, States, Calls, Places
<1>2. \A u \in Callers : LocalsInv(u)'
  BY DEF SlTypeOK, SlInv, LocalsInv, LockInv, InSection, Thds, Word, Unlocked
<1>3. \A u \in Callers : LockInv(u)'
  BY DEF SlTypeOK, SlInv, LocalsInv, LockInv, InSection, Word, Unlocked
<1>4. \A u \in Callers : TokenInv(u)'
  BY DEF SlTypeOK, SlInv, LocalsInv, LockInv, TokenInv, InSection, Chose, CanRun, Thds, Word, Unlocked
<1>5. \A u \in Kthds : RunningInv(u)'
  BY DEF SlTypeOK, SlInv, LocalsInv, LockInv, TokenInv, RunningInv, InSection, Settled, Chose, CanRun, Thds, Word, Unlocked
<1>6. (\A u \in ready : CanRun(u))'
  BY DEF SlTypeOK, SlInv, CanRun
<1> QED
  BY <1>1, <1>2, <1>3, <1>4, <1>5, <1>6 DEF SlInv

\* The lock was free, so nobody else is in the section.
LEMMA EnterCasStep ==
  ASSUME SlTypeOK, SlInv, NEW t \in Callers, EnterCas(t)
  PROVE  SlTypeOK' /\ SlInv'
<1> USE SlAssumption DEF EnterCas, At, Forget, callVars, Callers, EnterPlaces, ExitPlaces
<1>1. SlTypeOK'
  BY DEF SlTypeOK, SlInv, LocalsInv, Thds, Word, Unlocked, States, Calls, Places
<1>2. \A u \in Callers : LocalsInv(u)'
  BY DEF SlTypeOK, SlInv, LocalsInv, LockInv, InSection, Thds, Word, Unlocked
<1>3. \A u \in Callers : LockInv(u)'
  BY DEF SlTypeOK, SlInv, LocalsInv, LockInv, InSection, Word, Unlocked
<1>4. \A u \in Callers : TokenInv(u)'
  BY DEF SlTypeOK, SlInv, LocalsInv, LockInv, TokenInv, InSection, Chose, CanRun, Thds, Word, Unlocked
<1>5. \A u \in Kthds : RunningInv(u)'
  BY DEF SlTypeOK, SlInv, LocalsInv, LockInv, TokenInv, RunningInv, InSection, Settled, Chose, CanRun, Thds, Word, Unlocked
<1>6. (\A u \in ready : CanRun(u))'
  BY DEF SlTypeOK, SlInv, CanRun
<1> QED
  BY <1>1, <1>2, <1>3, <1>4, <1>5, <1>6 DEF SlInv

\* The owner stays.
LEMMA EnterMarkStep ==
  ASSUME SlTypeOK, SlInv, NEW t \in Callers, EnterMark(t)
  PROVE  SlTypeOK' /\ SlInv'
<1> USE SlAssumption DEF EnterMark, At, callVars, Callers, EnterPlaces, ExitPlaces
<1>1. SlTypeOK'
  <2>1. cached[t] \in Word /\ [cached[t] EXCEPT !.contention = TRUE] \in Word
    BY DEF SlTypeOK, Word
  <2>2. lock' \in Word /\ tok' \in [Callers -> BOOLEAN]
    BY <2>1 DEF SlTypeOK
  <2>3. pc' \in [Callers -> Places]
    BY DEF SlTypeOK, Places
  <2> HIDE DEF Callers
  <2> QED
    BY <2>2, <2>3 DEF SlTypeOK
<1>2. \A u \in Callers : LocalsInv(u)'
  BY DEF SlTypeOK, SlInv, LocalsInv, LockInv, InSection, Thds, Word, Unlocked
<1>3. \A u \in Callers : LockInv(u)'
  BY DEF SlTypeOK, SlInv, LocalsInv, LockInv, InSection, Word, Unlocked
<1>4. \A u \in Callers : TokenInv(u)'
  BY DEF SlTypeOK, SlInv, LocalsInv, LockInv, TokenInv, InSection, Chose, CanRun, Thds, Word, Unlocked
<1>5. \A u \in Kthds : RunningInv(u)'
  BY DEF SlTypeOK, SlInv, LocalsInv, LockInv, TokenInv, RunningInv, InSection, Settled, Chose, CanRun, Thds, Word, Unlocked
<1>6. (\A u \in ready : CanRun(u))'
  BY DEF SlTypeOK, SlInv, CanRun
<1> QED
  BY <1>1, <1>2, <1>3, <1>4, <1>5, <1>6 DEF SlInv

\* The processor goes to the owner, which is settled and current, or has chosen.
LEMMA EnterSwitchStep ==
  ASSUME SlTypeOK, SlInv, NEW t \in Callers, EnterSwitch(t)
  PROVE  SlTypeOK' /\ SlInv'
<1> USE SlAssumption DEF EnterSwitch, At, Switched, callVars, Callers, EnterPlaces, ExitPlaces
<1>1. SlTypeOK'
  <2>1. tok[t] \in BOOLEAN /\ cached[t].owner \in Thds
    BY DEF SlTypeOK, SlInv, LocalsInv, Thds
  <2>2. cpu' \in Thds /\ tok' \in [Callers -> BOOLEAN] /\ stok' \in [Callers -> BOOLEAN]
    BY <2>1, SwitchedTypes
  <2> QED
    BY <2>2 DEF SlTypeOK, Word, Unlocked, Places, Thds
<1>2. \A u \in Callers : LocalsInv(u)'
  BY DEF SlTypeOK, SlInv, LocalsInv, LockInv, InSection, Thds, Word, Unlocked
<1>3. \A u \in Callers : LockInv(u)'
  BY DEF SlTypeOK, SlInv, LocalsInv, LockInv, InSection, Word, Unlocked
<1>4. \A u \in Callers : TokenInv(u)'
  BY DEF SlTypeOK, SlInv, LocalsInv, LockInv, TokenInv, InSection, Chose, CanRun, Thds, Word, Unlocked
<1>5. \A u \in Kthds : RunningInv(u)'
  BY DEF SlTypeOK, SlInv, LocalsInv, LockInv, TokenInv, RunningInv, InSection, Settled, Chose, CanRun, Thds, Word, Unlocked
<1>6. (\A u \in ready : CanRun(u))'
  BY DEF SlTypeOK, SlInv, CanRun
<1> QED
  BY <1>1, <1>2, <1>3, <1>4, <1>5, <1>6 DEF SlInv

\* Nothing but a local changes.
LEMMA ExitReadStep ==
  ASSUME SlTypeOK, SlInv, NEW t \in Callers, ExitRead(t)
  PROVE  SlTypeOK' /\ SlInv'
<1> USE SlAssumption DEF ExitRead, At, callVars, Callers, EnterPlaces, ExitPlaces
<1>1. SlTypeOK'
  BY DEF SlTypeOK, SlInv, LocalsInv, Thds, Word, Unlocked, States, Calls, Places
<1>2. \A u \in Callers : LocalsInv(u)'
  BY DEF SlTypeOK, SlInv, LocalsInv, LockInv, InSection, Thds, Word, Unlocked
<1>3. \A u \in Callers : LockInv(u)'
  BY DEF SlTypeOK, SlInv, LocalsInv, LockInv, InSection, Word, Unlocked
<1>4. \A u \in Callers : TokenInv(u)'
  BY DEF SlTypeOK, SlInv, LocalsInv, LockInv, TokenInv, InSection, Chose, CanRun, Thds, Word, Unlocked
<1>5. \A u \in Kthds : RunningInv(u)'
  BY DEF SlTypeOK, SlInv, LocalsInv, LockInv, TokenInv, RunningInv, InSection, Settled, Chose, CanRun, Thds, Word, Unlocked
<1>6. (\A u \in ready : CanRun(u))'
  BY DEF SlTypeOK, SlInv, CanRun
<1> QED
  BY <1>1, <1>2, <1>3, <1>4, <1>5, <1>6 DEF SlInv

\* The owner leaves.
LEMMA ExitCasStep ==
  ASSUME SlTypeOK, SlInv, NEW t \in Callers, ExitCas(t)
  PROVE  SlTypeOK' /\ SlInv'
<1> USE SlAssumption DEF ExitCas, At, callVars, Callers, EnterPlaces, ExitPlaces
<1>1. SlTypeOK'
  <2>1. ret[t] \in Places
    BY DEF SlTypeOK, Places
  <2>2. pc' \in [Callers -> Places]
    BY <2>1 DEF SlTypeOK, Places
  <2>3. tok' \in [Callers -> BOOLEAN]
    BY DEF SlTypeOK
  <2>4. Unlocked \in Word /\ lock' \in {lock, Unlocked}
    BY DEF Word, Unlocked
  <2> HIDE DEF Callers
  <2> QED
    BY <2>2, <2>3, <2>4 DEF SlTypeOK
<1>2. \A u \in Callers : LocalsInv(u)'
  BY DEF SlTypeOK, SlInv, LocalsInv, LockInv, InSection, Thds, Word, Unlocked
<1>3. \A u \in Callers : LockInv(u)'
  BY DEF SlTypeOK, SlInv, LocalsInv, LockInv, InSection, Word, Unlocked
<1>4. \A u \in Callers : TokenInv(u)'
  BY DEF SlTypeOK, SlInv, LocalsInv, LockInv, TokenInv, InSection, Chose, CanRun, Thds, Word, Unlocked
<1>5. \A u \in Kthds : RunningInv(u)'
  BY DEF SlTypeOK, SlInv, LocalsInv, LockInv, TokenInv, RunningInv, InSection, Settled, Chose, CanRun, Thds, Word, Unlocked
<1>6. (\A u \in ready : CanRun(u))'
  BY DEF SlTypeOK, SlInv, CanRun
<1> QED
  BY <1>1, <1>2, <1>3, <1>4, <1>5, <1>6 DEF SlInv

\* The processor goes to the scheduler thread or stays.
LEMMA ExitSwitchStep ==
  ASSUME SlTypeOK, SlInv, NEW t \in Callers, ExitSwitch(t)
  PROVE  SlTypeOK' /\ SlInv'
<1> USE SlAssumption DEF ExitSwitch, At, Switched, callVars, Callers, EnterPlaces, ExitPlaces
<1>1. SlTypeOK'
  <2>1. tok[t] \in BOOLEAN /\ Sched \in Thds
    BY DEF SlTypeOK, SlInv, LocalsInv, Thds
  <2>2. cpu' \in Thds /\ tok' \in [Callers -> BOOLEAN] /\ stok' \in [Callers -> BOOLEAN]
    BY <2>1, SwitchedTypes
  <2> QED
    BY <2>2 DEF SlTypeOK, Word, Unlocked, Places, Thds
<1>2. \A u \in Callers : LocalsInv(u)'
  BY DEF SlTypeOK, SlInv, LocalsInv, LockInv, InSection, Thds, Word, Unlocked
<1>3. \A u \in Callers : LockInv(u)'
  BY DEF SlTypeOK, SlInv, LocalsInv, LockInv, InSection, Word, Unlocked
<1>4. \A u \in Callers : TokenInv(u)'
  BY DEF SlTypeOK, SlInv, LocalsInv, LockInv, TokenInv, InSection, Chose, CanRun, Thds, Word, Unlocked
<1>5. \A u \in Kthds : RunningInv(u)'
  BY DEF SlTypeOK, SlInv, LocalsInv, LockInv, TokenInv, RunningInv, InSection, Settled, Chose, CanRun, Thds, Word, Unlocked
<1>6. (\A u \in ready : CanRun(u))'
  BY DEF SlTypeOK, SlInv, CanRun
<1> QED
  BY <1>1, <1>2, <1>3, <1>4, <1>5, <1>6 DEF SlInv

\* A thread whose switch failed owns nothing.
LEMMA ScheduleEntersStep ==
  ASSUME SlTypeOK, SlInv, NEW t \in Callers, ScheduleEnters(t)
  PROVE  SlTypeOK' /\ SlInv'
<1> USE SlAssumption DEF ScheduleEnters, At, callVars, Callers, EnterPlaces, ExitPlaces
<1>1. SlTypeOK'
  BY DEF SlTypeOK, SlInv, LocalsInv, Thds, Word, Unlocked, States, Calls, Places
<1>2. \A u \in Callers : LocalsInv(u)'
  BY DEF SlTypeOK, SlInv, LocalsInv, LockInv, InSection, Thds, Word, Unlocked
<1>3. \A u \in Callers : LockInv(u)'
  BY DEF SlTypeOK, SlInv, LocalsInv, LockInv, InSection, Word, Unlocked
<1>4. \A u \in Callers : TokenInv(u)'
  BY DEF SlTypeOK, SlInv, LocalsInv, LockInv, TokenInv, InSection, Chose, CanRun, Thds, Word, Unlocked
<1>5. \A u \in Kthds : RunningInv(u)'
  BY DEF SlTypeOK, SlInv, LocalsInv, LockInv, TokenInv, RunningInv, InSection, Settled, Chose, CanRun, Thds, Word, Unlocked
<1>6. (\A u \in ready : CanRun(u))'
  BY DEF SlTypeOK, SlInv, CanRun
<1> QED
  BY <1>1, <1>2, <1>3, <1>4, <1>5, <1>6 DEF SlInv

\* The choice is current and can run.
LEMMA ScheduleStep ==
  ASSUME SlTypeOK, SlInv, NEW t \in Callers, Schedule(t)
  PROVE  SlTypeOK' /\ SlInv'
<1> USE SlAssumption DEF Schedule, At, Chosen, Callers, EnterPlaces, ExitPlaces
<1>1. SlTypeOK'
  BY DEF SlTypeOK, SlInv, LocalsInv, Thds, Word, Unlocked, States, Calls, Places
<1>2. \A u \in Callers : LocalsInv(u)'
  BY DEF SlTypeOK, SlInv, LocalsInv, LockInv, InSection, Thds, Word, Unlocked
<1>3. \A u \in Callers : LockInv(u)'
  BY DEF SlTypeOK, SlInv, LocalsInv, LockInv, InSection, Word, Unlocked
<1>4. \A u \in Callers : TokenInv(u)'
  BY DEF SlTypeOK, SlInv, LocalsInv, LockInv, TokenInv, InSection, Chose, CanRun, Thds, Word, Unlocked
<1>5. \A u \in Kthds : RunningInv(u)'
  BY DEF SlTypeOK, SlInv, LocalsInv, LockInv, TokenInv, RunningInv, InSection, Settled, Chose, CanRun, Thds, Word, Unlocked
<1>6. (\A u \in ready : CanRun(u))'
  BY DEF SlTypeOK, SlInv, CanRun
<1> QED
  BY <1>1, <1>2, <1>3, <1>4, <1>5, <1>6 DEF SlInv

\* A token still accepted: the choice is still current and can run.
LEMMA SwitchStep ==
  ASSUME SlTypeOK, SlInv, NEW t \in Callers, Switch(t)
  PROVE  SlTypeOK' /\ SlInv'
<1> USE SlAssumption DEF Switch, At, Switched, AfterSwitch, Callers, EnterPlaces, ExitPlaces
<1>1. SlTypeOK'
  <2>1. stok[t] \in BOOLEAN /\ picked[t] \in Thds
    BY DEF SlTypeOK, SlInv, LocalsInv, Thds
  <2>2. cpu' \in Thds /\ tok' \in [Callers -> BOOLEAN] /\ stok' \in [Callers -> BOOLEAN]
    BY <2>1, SwitchedTypes
  <2> QED
    BY <2>2 DEF SlTypeOK, Word, Unlocked, Places, Thds
<1>2. \A u \in Callers : LocalsInv(u)'
  BY DEF SlTypeOK, SlInv, LocalsInv, LockInv, InSection, Thds, Word, Unlocked
<1>3. \A u \in Callers : LockInv(u)'
  BY DEF SlTypeOK, SlInv, LocalsInv, LockInv, InSection, Word, Unlocked
<1>4. \A u \in Callers : TokenInv(u)'
  BY DEF SlTypeOK, SlInv, LocalsInv, LockInv, TokenInv, InSection, Chose, CanRun, Thds, Word, Unlocked
<1>5. \A u \in Kthds : RunningInv(u)'
  BY DEF SlTypeOK, SlInv, LocalsInv, LockInv, TokenInv, RunningInv, InSection, Settled, Chose, CanRun, Thds, Word, Unlocked
<1>6. (\A u \in ready : CanRun(u))'
  BY DEF SlTypeOK, SlInv, CanRun
<1> QED
  BY <1>1, <1>2, <1>3, <1>4, <1>5, <1>6 DEF SlInv

\* A thread that blocks is not settled until it is chosen again.
LEMMA BlockBodyStep ==
  ASSUME SlTypeOK, SlInv, NEW t \in Callers, BlockBody(t)
  PROVE  SlTypeOK' /\ SlInv'
<1> USE SlAssumption DEF BlockBody, At, InBody, Leaves, Schedules, bodyVars, Callers, EnterPlaces, ExitPlaces
<1>1. SlTypeOK'
  <2>1. woken' \in [Kthds -> BOOLEAN]
    BY DEF SlTypeOK
  <2>2. /\ state' \in [Kthds -> States] /\ ready' \in SUBSET Kthds
        /\ pc' \in [Callers -> Places] /\ op' \in [Callers -> Calls]
        /\ ret' \in [Callers -> {"client", "body", "schedule", "switch"}]
    BY DEF SlTypeOK, States, Places, Calls
  <2> QED
    BY <2>1, <2>2 DEF SlTypeOK
<1>2. \A u \in Callers : LocalsInv(u)'
  BY DEF SlTypeOK, SlInv, LocalsInv, LockInv, InSection, Thds, Word, Unlocked
<1>3. \A u \in Callers : LockInv(u)'
  BY DEF SlTypeOK, SlInv, LocalsInv, LockInv, InSection, Word, Unlocked
<1>4. \A u \in Callers : TokenInv(u)'
  BY DEF SlTypeOK, SlInv, LocalsInv, LockInv, TokenInv, InSection, Chose, CanRun, Thds, Word, Unlocked
<1>5. \A u \in Kthds : RunningInv(u)'
  BY DEF SlTypeOK, SlInv, LocalsInv, LockInv, TokenInv, RunningInv, InSection, Settled, Chose, CanRun, Thds, Word, Unlocked
<1>6. (\A u \in ready : CanRun(u))'
  BY DEF SlTypeOK, SlInv, CanRun
<1> QED
  BY <1>1, <1>2, <1>3, <1>4, <1>5, <1>6 DEF SlInv

\* Nobody is stopped by a wakeup.
LEMMA WakeupBodyStep ==
  ASSUME SlTypeOK, SlInv, NEW t \in Callers, WakeupBody(t)
  PROVE  SlTypeOK' /\ SlInv'
<1> USE SlAssumption DEF WakeupBody, At, InBody, Leaves, Schedules, bodyVars, Callers, EnterPlaces, ExitPlaces
<1>1. SlTypeOK'
  <2>1. woken' \in [Kthds -> BOOLEAN]
    BY DEF SlTypeOK
  <2>2. /\ state' \in [Kthds -> States] /\ ready' \in SUBSET Kthds
        /\ pc' \in [Callers -> Places] /\ op' \in [Callers -> Calls]
        /\ target' \in [Callers -> Kthds \cup {NULL}]
        /\ ret' \in [Callers -> {"client", "body", "schedule", "switch"}]
    BY DEF SlTypeOK, SlInv, LocalsInv, States, Places, Calls
  <2> QED
    BY <2>1, <2>2 DEF SlTypeOK
<1>2. \A u \in Callers : LocalsInv(u)'
  BY DEF SlTypeOK, SlInv, LocalsInv, LockInv, InSection, Thds, Word, Unlocked
<1>3. \A u \in Callers : LockInv(u)'
  BY DEF SlTypeOK, SlInv, LocalsInv, LockInv, InSection, Word, Unlocked
<1>4. \A u \in Callers : TokenInv(u)'
  BY DEF SlTypeOK, SlInv, LocalsInv, LockInv, TokenInv, InSection, Chose, CanRun, Thds, Word, Unlocked
<1>5. \A u \in Kthds : RunningInv(u)'
  BY DEF SlTypeOK, SlInv, LocalsInv, LockInv, TokenInv, RunningInv, InSection, Settled, Chose, CanRun, Thds, Word, Unlocked
<1>6. (\A u \in ready : CanRun(u))'
  BY DEF SlTypeOK, SlInv, LocalsInv, CanRun
<1> QED
  BY <1>1, <1>2, <1>3, <1>4, <1>5, <1>6 DEF SlInv

\* No thread changes its state.
LEMMA OtherBodyStep ==
  ASSUME SlTypeOK, SlInv, NEW t \in Callers, OtherBody(t)
  PROVE  SlTypeOK' /\ SlInv'
<1> USE SlAssumption DEF OtherBody, At, InBody, Leaves, Schedules, bodyVars, Callers, EnterPlaces, ExitPlaces
<1>1. SlTypeOK'
  BY DEF SlTypeOK, SlInv, LocalsInv, Thds, Word, Unlocked, States, Calls, Places
<1>2. \A u \in Callers : LocalsInv(u)'
  BY DEF SlTypeOK, SlInv, LocalsInv, LockInv, InSection, Thds, Word, Unlocked
<1>3. \A u \in Callers : LockInv(u)'
  BY DEF SlTypeOK, SlInv, LocalsInv, LockInv, InSection, Word, Unlocked
<1>4. \A u \in Callers : TokenInv(u)'
  BY DEF SlTypeOK, SlInv, LocalsInv, LockInv, TokenInv, InSection, Chose, CanRun, Thds, Word, Unlocked
<1>5. \A u \in Kthds : RunningInv(u)'
  BY DEF SlTypeOK, SlInv, LocalsInv, LockInv, TokenInv, RunningInv, InSection, Settled, Chose, CanRun, Thds, Word, Unlocked
<1>6. (\A u \in ready : CanRun(u))'
  BY DEF SlTypeOK, SlInv, CanRun
<1> QED
  BY <1>1, <1>2, <1>3, <1>4, <1>5, <1>6 DEF SlInv

\* A call: the thread settles into sl_cs_enter.
LEMMA CallStep ==
  ASSUME SlTypeOK, SlInv, NEW t \in Callers, NEW f \in Calls \ {"loop"},
         NEW u \in Kthds \cup {NULL}, f = "wakeup" => u \in Kthds,
         woken' \in [Kthds -> BOOLEAN], Call(t, f, u)
  PROVE  SlTypeOK' /\ SlInv'
<1> USE SlAssumption DEF Call, At, Callers, EnterPlaces, ExitPlaces
<1>1. SlTypeOK'
  BY DEF SlTypeOK, SlInv, LocalsInv, Thds, Word, Unlocked, States, Calls, Places
<1>2. \A u1 \in Callers : LocalsInv(u1)' /\ LockInv(u1)'
  BY DEF SlTypeOK, SlInv, LocalsInv, LockInv, InSection
<1>3. \A u1 \in Callers : TokenInv(u1)'
  BY DEF SlTypeOK, SlInv, LocalsInv, LockInv, TokenInv, InSection, Chose, CanRun
<1>4. \A u1 \in Kthds : RunningInv(u1)'
  BY DEF SlTypeOK, SlInv, LocalsInv, RunningInv, LockInv, InSection, Settled, CanRun
<1>5. (\A u1 \in ready : CanRun(u1))'
  BY DEF SlTypeOK, SlInv, CanRun
<1> QED
  BY <1>1, <1>2, <1>3, <1>4, <1>5 DEF SlInv

\* A thread that did not exist is neither running nor ready.
LEMMA sl_thd_allocStep ==
  ASSUME SlTypeOK, SlInv, NEW t \in Callers, NEW u \in Kthds, sl_thd_alloc(t, u)
  PROVE  SlTypeOK' /\ SlInv'
<1> USE SlAssumption DEF sl_thd_alloc, At, Callers, EnterPlaces, ExitPlaces
<1>1. SlTypeOK'
  BY DEF SlTypeOK, SlInv, LocalsInv, Thds, Word, Unlocked, States, Calls, Places
<1>2. \A u1 \in Callers : LocalsInv(u1)' /\ LockInv(u1)'
  BY DEF SlTypeOK, SlInv, LocalsInv, LockInv, InSection
<1>3. \A u1 \in Callers : TokenInv(u1)'
  BY DEF SlTypeOK, SlInv, LocalsInv, LockInv, TokenInv, InSection, Chose, CanRun
<1>4. \A u1 \in Kthds : RunningInv(u1)'
  BY DEF SlTypeOK, SlInv, LocalsInv, RunningInv, LockInv, InSection, Settled, CanRun
<1>5. (\A u1 \in ready : CanRun(u1))'
  BY DEF SlTypeOK, SlInv, CanRun
<1> QED
  BY <1>1, <1>2, <1>3, <1>4, <1>5 DEF SlInv

\* The thread put on the queue can run.
LEMMA sl_thd_param_setStep ==
  ASSUME SlTypeOK, SlInv, NEW t \in Callers, NEW u \in Kthds, sl_thd_param_set(t, u)
  PROVE  SlTypeOK' /\ SlInv'
<1> USE SlAssumption DEF sl_thd_param_set, At, Callers, EnterPlaces, ExitPlaces
<1>1. SlTypeOK'
  BY DEF SlTypeOK, SlInv, LocalsInv, Thds, Word, Unlocked, States, Calls, Places
<1>2. \A u1 \in Callers : LocalsInv(u1)' /\ LockInv(u1)'
  BY DEF SlTypeOK, SlInv, LocalsInv, LockInv, InSection
<1>3. \A u1 \in Callers : TokenInv(u1)'
  BY DEF SlTypeOK, SlInv, LocalsInv, LockInv, TokenInv, InSection, Chose, CanRun
<1>4. \A u1 \in Kthds : RunningInv(u1)'
  BY DEF SlTypeOK, SlInv, LocalsInv, RunningInv, LockInv, InSection, Settled, CanRun
<1>5. (\A u1 \in ready : CanRun(u1))'
  BY DEF SlTypeOK, SlInv, CanRun
<1> QED
  BY <1>1, <1>2, <1>3, <1>4, <1>5 DEF SlInv

\* The scheduler thread gets the processor.  No token or choice of its own is
\* still open, because it is never interrupted itself.
LEMMA PreemptStep ==
  ASSUME SlTypeOK, SlInv, Preempt
  PROVE  SlTypeOK' /\ SlInv'
  BY SlAssumption DEF Preempt, SlTypeOK, SlInv, LocalsInv, LockInv, TokenInv, RunningInv,
    InSection, Chose, Settled, CanRun, Callers, Thds

\* Every step, of the timer, the library or a client, keeps types and invariant.
THEOREM SlInvNext ==
  ASSUME SlTypeOK, SlInv, [Next]_vars
  PROVE  SlTypeOK' /\ SlInv'
<1>1. CASE Preempt
  BY <1>1, PreemptStep
<1>2. ASSUME NEW t \in Callers, Library(t)
      PROVE  SlTypeOK' /\ SlInv'
  BY <1>2, SyncStep, EnterReadStep, EnterCasStep, EnterMarkStep, EnterSwitchStep, ExitReadStep,
     ExitCasStep, ExitSwitchStep, ScheduleEntersStep, ScheduleStep, SwitchStep, BlockBodyStep,
     WakeupBodyStep, OtherBodyStep
  DEF Library
<1>3. ASSUME NEW t \in Kthds, Client(t)
      PROVE  SlTypeOK' /\ SlInv'
  <2>1. t \in Callers
    BY DEF Callers
  <2>2. CASE sl_thd_block(t)
    <3>1. woken' \in [Kthds -> BOOLEAN]
      BY <2>2 DEF sl_thd_block, SlTypeOK
    <3> QED
      BY <2>1, <2>2, <3>1, CallStep DEF sl_thd_block, Calls
  <2>3. ASSUME NEW u \in Kthds \cup {NULL}, sl_thd_yield(t, u)
        PROVE  SlTypeOK' /\ SlInv'
    <3>1. woken' \in [Kthds -> BOOLEAN]
      BY <2>3 DEF sl_thd_yield, SlTypeOK
    <3> QED
      BY <2>1, <2>3, <3>1, CallStep DEF sl_thd_yield, Calls
  <2>4. ASSUME NEW u \in Kthds, sl_thd_wakeup(t, u)
        PROVE  SlTypeOK' /\ SlInv'
    <3>1. woken' \in [Kthds -> BOOLEAN]
      BY <2>4 DEF sl_thd_wakeup, SlTypeOK
    <3> QED
      BY <2>1, <2>4, <3>1, CallStep DEF sl_thd_wakeup, Calls
  <2> QED
    BY <1>3, <2>1, <2>2, <2>3, <2>4, sl_thd_allocStep, sl_thd_param_setStep DEF Client
<1>4. CASE UNCHANGED vars
  BY <1>4 DEF vars, SlTypeOK, SlInv, LocalsInv, LockInv, TokenInv, RunningInv, InSection,
    Chose, Settled, CanRun, Callers, Thds, At
<1> QED
  BY <1>1, <1>2, <1>3, <1>4 DEF Next

-----------------------------------------------------------------------------
(* Wakeups, when there is one for each block.                               *)

\* A thread with a wakeup to use is in SL_THD_WOKEN; until it has used it, and
\* while another wakeup of it is under way, nobody calls the next.  The scheduler
\* thread calls none.
Waking(t, u) == op[t] = "wakeup" /\ target[t] = u
WakeInv ==
  /\ op[Sched] = "loop"
  /\ \A u \in Kthds :
       /\ woken[u] => state[u] = "SL_THD_WOKEN"
       /\ \A t \in Kthds : Waking(t, u) => ~woken[u] /\ \A s \in Kthds : Waking(s, u) => s = t

\* sl_thd_wakeup is called for nobody who has, or is about to get, a wakeup.
LEMMA NoneAhead ==
  ASSUME SlTypeOK, WakeInv, MaxAhead <= 1, NEW u \in Kthds, Ahead(u) < MaxAhead
  PROVE  ~woken[u] /\ \A t \in Kthds : ~Waking(t, u)
<1> DEFINE S == {t \in Kthds : op[t] = "wakeup" /\ target[t] = u}
<1>1. Cardinality(S) + (IF woken[u] THEN 1 ELSE 0) < 1
  <2>1. Ahead(u) = Cardinality(S) + (IF woken[u] THEN 1 ELSE 0)
    BY DEF Ahead
  <2>2. Cardinality(S) \in Nat
    <3>1. CASE S = {}
      BY <3>1, FS_EmptySet
    <3>2. CASE S # {}
      <4>1. PICK t \in S : S = {t}
        BY <3>2 DEF WakeInv, Waking
      <4> QED
        BY <4>1, FS_Singleton
    <3> QED
      BY <3>1, <3>2
  <2> HIDE DEF S
  <2> QED
    BY <2>1, <2>2, SlAssumption
<1>2. S = {}
  <2>1. ASSUME NEW t \in S
        PROVE  FALSE
    <3>1. S = {t}
      BY <2>1 DEF WakeInv, Waking
    <3>2. Cardinality(S) = 1
      BY <3>1, FS_Singleton
    <3> HIDE DEF S
    <3> QED
      BY <1>1, <3>2
  <2> QED
    BY <2>1
<1>3. Cardinality(S) = 0
  BY <1>2, FS_EmptySet
<1>4. ~woken[u]
  <2> HIDE DEF S
  <2> QED
    BY <1>1, <1>3
<1> QED
  BY <1>2, <1>4 DEF Waking

\* A step that leaves states, wakeups and the calls under way as they are.
LEMMA WakeUntouched ==
  ASSUME WakeInv, UNCHANGED << state, woken >>, op'[Sched] = "loop",
         \A t, u \in Kthds : Waking(t, u)' => Waking(t, u)
  PROVE  WakeInv'
  BY DEF WakeInv

\* The state changes under the lock, and only a thread's own block uses a wakeup.
LEMMA BlockWakes ==
  ASSUME SlTypeOK, SlInv, WakeInv, NEW t \in Callers, BlockBody(t)
  PROVE  WakeInv'
<1>1. t \in Kthds
  BY DEF BlockBody, InBody, At, WakeInv, SlInv, LocalsInv, Callers, SlTypeOK
<1>2. \A s, u \in Kthds : Waking(s, u)' => Waking(s, u)
  BY DEF BlockBody, Waking, SlTypeOK, Callers
<1>3. \A u \in Kthds : woken'[u] => woken[u] /\ state'[u] = state[u]
  BY <1>1 DEF BlockBody, WakeInv, SlTypeOK
<1>4. op'[Sched] = "loop"
  BY DEF BlockBody, SlTypeOK, WakeInv, Callers
<1> QED
  BY <1>2, <1>3, <1>4 DEF WakeInv

\* The wakeup that is under way is the only one: it does not find SL_THD_WOKEN
\* set by another.
LEMMA WakeupWakes ==
  ASSUME SlTypeOK, SlInv, WakeInv, NEW t \in Callers, WakeupBody(t)
  PROVE  WakeInv'
<1> DEFINE u0 == target[t]
<1>1. t \in Kthds /\ u0 \in Kthds /\ Waking(t, u0)
  BY DEF WakeupBody, InBody, At, WakeInv, SlInv, LocalsInv, Callers, SlTypeOK, Waking
<1>2. ~woken[u0]
  BY <1>1 DEF WakeInv
<1>3. \A s, u \in Kthds : Waking(s, u)' => Waking(s, u) /\ u # u0
  BY <1>1 DEF WakeupBody, Waking, SlTypeOK, Callers, WakeInv
<1>4. \A u \in Kthds : u # u0 => woken'[u] = woken[u] /\ state'[u] = state[u]
  BY <1>1 DEF WakeupBody, SlTypeOK
<1>5. woken'[u0] => state'[u0] = "SL_THD_WOKEN"
  BY <1>1, <1>2 DEF WakeupBody, SlTypeOK
<1>6. op'[Sched] = "loop"
  BY DEF WakeupBody, SlTypeOK, WakeInv, Callers
<1> QED
  BY <1>3, <1>4, <1>5, <1>6 DEF WakeInv

\* Every step, when there is at most one wakeup ahead.
LEMMA WakeNext ==
  ASSUME SlTypeOK, SlInv, WakeInv, MaxAhead <= 1, [Next]_vars
  PROVE  WakeInv'
<1>1. CASE Preempt \/ UNCHANGED vars
  BY <1>1, WakeUntouched DEF Preempt, vars, Waking, WakeInv
<1>2. ASSUME NEW t \in Callers, Library(t)
      PROVE  WakeInv'
  <2>1. CASE Schedule(t)
    BY <2>1, WakeUntouched, SlAssumption DEF Schedule, Waking, WakeInv, SlTypeOK, Callers
  <2>2. CASE OtherBody(t)
    BY <2>2, WakeUntouched DEF OtherBody, Waking, WakeInv, SlTypeOK, Callers
  <2>3. CASE \/ Sync(t) \/ EnterRead(t) \/ EnterCas(t) \/ EnterMark(t) \/ EnterSwitch(t)
             \/ ExitRead(t) \/ ExitCas(t) \/ ExitSwitch(t) \/ ScheduleEnters(t) \/ Switch(t)
    <3>1. UNCHANGED << state, woken, op, target >>
      BY <2>3 DEF Sync, EnterRead, EnterCas, EnterMark, EnterSwitch, ExitRead, ExitCas,
        ExitSwitch, ScheduleEnters, Switch, callVars
    <3> QED
      BY <3>1, WakeUntouched DEF Waking, WakeInv
  <2> QED
    BY <1>2, <2>1, <2>2, <2>3, BlockWakes, WakeupWakes DEF Library
<1>3. ASSUME NEW t \in Kthds, Client(t)
      PROVE  WakeInv'
  <2>1. CASE sl_thd_block(t)
    BY <2>1, WakeUntouched, SlAssumption DEF sl_thd_block, Call, Waking, WakeInv, SlTypeOK, Callers
  <2>2. ASSUME NEW u \in Kthds \cup {NULL}, sl_thd_yield(t, u)
        PROVE  WakeInv'
    BY <2>2, WakeUntouched, SlAssumption DEF sl_thd_yield, Call, Waking, WakeInv, SlTypeOK, Callers
  <2>3. ASSUME NEW u \in Kthds, sl_thd_wakeup(t, u)
        PROVE  WakeInv'
    <3>1. ~woken[u] /\ \A s \in Kthds : ~Waking(s, u)
      BY <2>3, NoneAhead DEF sl_thd_wakeup
    <3>2. UNCHANGED << state, woken >>
      BY <2>3 DEF sl_thd_wakeup, Call
    <3>3. \A s, v \in Kthds : Waking(s, v)' => Waking(s, v) \/ (s = t /\ v = u)
      BY <2>3 DEF sl_thd_wakeup, Call, Waking, SlTypeOK, Callers
    <3>4. op'[Sched] = "loop"
      BY <2>3, SlAssumption DEF sl_thd_wakeup, Call, WakeInv, SlTypeOK, Callers
    <3> QED
      BY <3>1, <3>2, <3>3, <3>4 DEF WakeInv
  <2>4. ASSUME NEW u \in Kthds, sl_thd_alloc(t, u)
        PROVE  WakeInv'
    BY <2>4 DEF sl_thd_alloc, WakeInv, Waking, SlTypeOK
  <2>5. ASSUME NEW u \in Kthds, sl_thd_param_set(t, u)
        PROVE  WakeInv'
    BY <2>5, WakeUntouched DEF sl_thd_param_set, Waking, WakeInv
  <2> QED
    BY <1>3, <2>1, <2>2, <2>3, <2>4, <2>5 DEF Client
<1> QED
  BY <1>1, <1>2, <1>3 DEF Next

-----------------------------------------------------------------------------
(* The theorems.                                                            *)

\* sl_cs_enter and sl_cs_exit: at most one thread is between taking and
\* freeing the lock word, whatever is preempted where.
THEOREM OneInSection == Spec => []MutualExclusion
<1>1. SlTypeOK /\ SlInv => MutualExclusion
  BY SlAssumption DEF SlTypeOK, SlInv, LockInv, MutualExclusion, InSection, Callers
<1> QED
  BY <1>1, SlInvInit, SlInvNext, PTL DEF Spec

\* The assertions of sl_cs_enter_contention and sl_thd_block cannot fail.
THEOREM NoAssertionFails == Spec => []AssertionsHold
<1>1. SlTypeOK /\ SlInv => AssertionsHold
  BY SlAssumption DEF SlTypeOK, SlInv, LocalsInv, RunningInv, Settled, CanRun, AssertionsHold,
    InBody, At, Callers
<1> QED
  BY <1>1, SlInvInit, SlInvNext, PTL DEF Spec

\* cos_defswitch under a stale choice is refused: no thread that is blocked or
\* does not exist executes client code.
THEOREM TokensProtect == Spec => []BlockedStayOut
<1>1. SlTypeOK /\ SlInv => BlockedStayOut
  BY DEF SlInv, RunningInv, Settled, CanRun, BlockedStayOut
<1> QED
  BY <1>1, SlInvInit, SlInvNext, PTL DEF Spec

\* lwt's kthds[current_kthd] is the executing kernel thread's own entry.
THEOREM CurrentIsCurrent == Spec => []KthdCurrent
<1>1. SlTypeOK /\ SlInv => KthdCurrent
  BY DEF SlInv, RunningInv, Settled, KthdCurrent
<1> QED
  BY <1>1, SlInvInit, SlInvNext, PTL DEF Spec

\* sl_thd_wakeup before, during or after the sl_thd_block it is meant for: the
\* thread does not stay blocked, as long as it is woken once for each block.
THEOREM WakeupsArrive ==
  ASSUME MaxAhead <= 1
  PROVE  Spec => []NoLostWakeup
<1>1. Init => WakeInv
  BY SlAssumption DEF Init, WakeInv, Waking, Callers
<1>2. SlTypeOK /\ SlInv /\ WakeInv /\ [Next]_vars => WakeInv'
  BY WakeNext
<1>3. WakeInv => NoLostWakeup
  BY DEF WakeInv, NoLostWakeup
<1> QED
  BY <1>1, <1>2, <1>3, SlInvInit, SlInvNext, PTL DEF Spec
=============================================================================
