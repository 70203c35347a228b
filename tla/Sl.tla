--------------------------------- MODULE Sl ---------------------------------
(***************************************************************************)
(* Kernel threads under the scheduling library sl.c, sl.h: the critical    *)
(* section with its lock word, the choice of the next thread, and          *)
(* sl_thd_block, sl_thd_wakeup, sl_thd_yield on top of it.                 *)
(*                                                                         *)
(* There is one processor.  It can be taken from a thread between any two  *)
(* accesses to shared memory, and then goes to the scheduler thread, which *)
(* executes sl_sched_loop.  A thread says where it wants the processor to  *)
(* go with cos_defswitch, under a token it got from cos_sched_sync before: *)
(* the kernel refuses a token when a switch has happened since.            *)
(*                                                                         *)
(* One action is the code from one access to the lock word, or one kernel  *)
(* call, to the next; pc names the place.  What is between is done under   *)
(* the lock or on locals.                                                  *)
(***************************************************************************)
EXTENDS Integers, FiniteSets

CONSTANTS Kthds,    \* kernel threads that run client code
          Sched,    \* the scheduler thread
          Idle,     \* the idle thread
          NULL,
          MaxAhead  \* bound: wakeups called for a thread before it blocks

ASSUME SlAssumption ==
  /\ Sched \notin Kthds /\ Idle \notin Kthds \cup {Sched}
  /\ NULL \notin Kthds \cup {Sched, Idle}
  /\ MaxAhead \in Nat

Callers == Kthds \cup {Sched}
Thds == Callers \cup {Idle}

VARIABLES
  lock,          \* sl_global_data.lock
  state,         \* sl_thd->state of the client threads
  ready,         \* what sl_mod_schedule chooses from
  current_kthd,
  cpu,           \* the thread the processor executes
  pc, ret,       \* place of a thread in the library; where it returns to from
                 \* sl_cs_enter ("body", "schedule") or sl_cs_exit ("client", "switch")
  op, target,    \* the call a thread has made, and the thread it is about
  cached, picked,\* locals: the lock word read last; the thread to switch to
  tok, stok,     \* is the token of sl_cs_enter or sl_cs_exit, and of the
                 \* schedule function around it, still accepted
  woken          \* history: the thread was woken and has not blocked since

vars == << lock, state, ready, current_kthd, cpu, pc, ret, op, target,
           cached, picked, tok, stok, woken >>
\* What a step inside sl_cs_enter or sl_cs_exit leaves alone.
callVars == << state, ready, current_kthd, op, target, picked, woken >>

Word == [owner : Callers \cup {NULL}, contention : BOOLEAN]
Unlocked == [owner |-> NULL, contention |-> FALSE]

States == {"SL_THD_FREE", "SL_THD_BLOCKED", "SL_THD_WOKEN", "SL_THD_RUNNABLE"}
Calls == {"block", "wakeup", "yield", "loop"}
EnterPlaces == {"enter", "enter_read", "enter_cas", "enter_mark", "enter_switch"}
ExitPlaces == {"exit", "exit_read", "exit_cas", "exit_contended", "exit_switch"}
Places == {"client", "body", "schedule", "switch"} \cup EnterPlaces \cup ExitPlaces

SlTypeOK ==
  /\ lock \in Word
  /\ state \in [Kthds -> States]
  /\ ready \in SUBSET Kthds
  /\ current_kthd \in Thds
  /\ cpu \in Thds
  /\ pc \in [Callers -> Places]
  /\ ret \in [Callers -> {"client", "body", "schedule", "switch"}]
  /\ op \in [Callers -> Calls]
  /\ target \in [Callers -> Kthds \cup {NULL}]
  /\ cached \in [Callers -> Word]
  /\ picked \in [Callers -> Thds]
  /\ tok \in [Callers -> BOOLEAN]
  /\ stok \in [Callers -> BOOLEAN]
  /\ woken \in [Kthds -> BOOLEAN]

\* sl_init and the threads made before sl_sched_loop starts.
Init ==
  /\ lock = Unlocked
  /\ state \in [Kthds -> {"SL_THD_FREE", "SL_THD_RUNNABLE"}]
  /\ ready = {t \in Kthds : state[t] = "SL_THD_RUNNABLE"}
  /\ current_kthd = Sched
  /\ cpu = Sched
  /\ pc = [t \in Callers |-> IF t = Sched THEN "enter" ELSE "client"]
  /\ ret = [t \in Callers |-> "body"]
  /\ op = [t \in Callers |-> "loop"]
  /\ target = [t \in Callers |-> NULL]
  /\ cached = [t \in Callers |-> Unlocked]
  /\ picked = [t \in Callers |-> Idle]
  /\ tok = [t \in Callers |-> FALSE]
  /\ stok = [t \in Callers |-> FALSE]
  /\ woken = [t \in Kthds |-> FALSE]

-----------------------------------------------------------------------------
(* The kernel.                                                              *)

At(t, place) == cpu = t /\ pc[t] = place

\* cos_defswitch by t to u under a token that is accepted or not.  After a
\* switch all tokens taken before it are outdated.
Switched(accepted, u) ==
  IF accepted
    THEN /\ cpu' = u
         /\ tok' = [t \in Callers |-> FALSE]
         /\ stok' = [t \in Callers |-> FALSE]
    ELSE UNCHANGED << cpu, tok, stok >>

\* The lock word and the token a thread has read are of no use any more.
Forget(t) ==
  /\ cached' = [cached EXCEPT ![t] = Unlocked]
  /\ tok' = [tok EXCEPT ![t] = FALSE]

\* The timer takes the processor from any other thread for the scheduler thread.
Preempt ==
  /\ cpu # Sched
  /\ cpu' = Sched
  /\ UNCHANGED << lock, state, ready, current_kthd, pc, ret, op, target,
                  cached, picked, tok, stok, woken >>

-----------------------------------------------------------------------------
(* sl_cs_enter and sl_cs_enter_contention.                                  *)

\* cos_sched_sync, by which both functions start: a token not yet outdated.
Sync(t) ==
  /\ \/ At(t, "enter") /\ pc' = [pc EXCEPT ![t] = "enter_read"]
     \/ At(t, "exit") /\ pc' = [pc EXCEPT ![t] = "exit_read"]
  /\ tok' = [tok EXCEPT ![t] = TRUE]
  /\ UNCHANGED << lock, cpu, ret, cached, stok, callVars >>

\* Fault: the owner is not looked at.
EnterRead_Unchecked(t) ==
  /\ At(t, "enter_read")
  /\ cached' = [cached EXCEPT ![t] = lock]
  /\ pc' = [pc EXCEPT ![t] = "enter_cas"]
  /\ UNCHANGED << lock, cpu, ret, tok, stok, callVars >>

\* The lock is free, or owned by another thread, marked as contended or not.
EnterRead(t) ==
  /\ At(t, "enter_read")
  /\ cached' = [cached EXCEPT ![t] = lock]
  /\ pc' = [pc EXCEPT ![t] =
       IF lock.owner = NULL THEN "enter_cas"
       ELSE IF lock.contention THEN "enter_switch" ELSE "enter_mark"]
  /\ UNCHANGED << lock, cpu, ret, tok, stok, callVars >>

\* The free lock is taken, or another thread was faster: retry.
EnterCas(t) ==
  /\ At(t, "enter_cas")
  /\ \/ /\ lock = cached[t]
        /\ lock' = [cached[t] EXCEPT !.owner = t]
        /\ pc' = [pc EXCEPT ![t] = ret[t]]
     \/ /\ lock # cached[t]
        /\ pc' = [pc EXCEPT ![t] = "enter"]
        /\ UNCHANGED lock
  /\ Forget(t)
  /\ UNCHANGED << cpu, ret, stok, callVars >>

\* The owner must learn that somebody waits.
EnterMark(t) ==
  /\ At(t, "enter_mark")
  /\ \/ /\ lock = cached[t]
        /\ lock' = [cached[t] EXCEPT !.contention = TRUE]
        /\ pc' = [pc EXCEPT ![t] = "enter_switch"]
     \/ /\ lock # cached[t]
        /\ pc' = [pc EXCEPT ![t] = "enter"]
        /\ UNCHANGED lock
  /\ UNCHANGED << cpu, ret, cached, tok, stok, callVars >>

\* Fault: the waiter tries again without giving the owner the processor.
EnterSwitch_Spin(t) ==
  /\ At(t, "enter_switch")
  /\ pc' = [pc EXCEPT ![t] = "enter"]
  /\ UNCHANGED << lock, cpu, ret, cached, tok, stok, callVars >>

\* The processor goes to the owner; whatever comes of it, retry.
EnterSwitch(t) ==
  /\ At(t, "enter_switch")
  /\ pc' = [pc EXCEPT ![t] = "enter"]
  /\ Switched(tok[t], cached[t].owner)
  /\ cached' = [cached EXCEPT ![t] = Unlocked]
  /\ UNCHANGED << lock, ret, callVars >>

-----------------------------------------------------------------------------
(* sl_cs_exit and sl_cs_exit_contention.                                    *)

ExitRead(t) ==
  /\ At(t, "exit_read")
  /\ cached' = [cached EXCEPT ![t] = lock]
  /\ pc' = [pc EXCEPT ![t] = IF lock.contention THEN "exit_contended" ELSE "exit_cas"]
  /\ UNCHANGED << lock, cpu, ret, tok, stok, callVars >>

\* The lock is freed unless its word has changed since: then retry.
ExitCas(t) ==
  /\ At(t, "exit_cas") \/ At(t, "exit_contended")
  /\ \/ /\ lock = cached[t]
        /\ lock' = Unlocked
        /\ pc' = [pc EXCEPT ![t] = IF @ = "exit_contended" THEN "exit_switch" ELSE ret[t]]
     \/ /\ lock # cached[t]
        /\ pc' = [pc EXCEPT ![t] = "exit"]
        /\ UNCHANGED lock
  /\ cached' = [cached EXCEPT ![t] = Unlocked]
  /\ tok' = [tok EXCEPT ![t] = @ /\ pc'[t] = "exit_switch"]
  /\ UNCHANGED << cpu, ret, stok, callVars >>

\* After contention the scheduler thread decides who runs, unless the token is
\* out of date: then it is not told, and has to wait for its next tick.
ExitSwitch(t) ==
  /\ At(t, "exit_switch")
  /\ pc' = [pc EXCEPT ![t] = ret[t]]
  /\ Switched(tok[t], Sched)
  /\ UNCHANGED << lock, ret, cached, callVars >>

-----------------------------------------------------------------------------
(* sl_cs_exit_schedule_nospin_arg and its callers.                          *)

\* The thread a yield names, if it can run; else what the policy chooses.
Chosen(t, u) ==
  IF target[t] # NULL /\ state[target[t]] = "SL_THD_RUNNABLE" THEN u = target[t]
  ELSE IF ready # {} THEN u \in ready ELSE u = Idle

\* Fault: current_kthd is not set when the caller names the next thread.
Schedule_NotSaved(t) ==
  /\ At(t, "schedule") /\ lock.owner = t
  /\ \E u \in Thds :
       /\ Chosen(t, u)
       /\ picked' = [picked EXCEPT ![t] = u]
       /\ current_kthd' = IF u = target[t] THEN current_kthd ELSE u
  /\ target' = [target EXCEPT ![t] = NULL]
  /\ stok' = [stok EXCEPT ![t] = TRUE]
  /\ pc' = [pc EXCEPT ![t] = "exit"]
  /\ ret' = [ret EXCEPT ![t] = "switch"]
  /\ UNCHANGED << lock, state, ready, cpu, op, cached, tok, woken >>

\* Fault: the lock is taken without looking whether it is held.
ScheduleEnters_Always(t) ==
  /\ At(t, "schedule")
  /\ pc' = [pc EXCEPT ![t] = "enter"]
  /\ ret' = [ret EXCEPT ![t] = "schedule"]
  /\ UNCHANGED << lock, cpu, cached, tok, stok, callVars >>

\* The lock is taken if it is not held: only when an earlier switch failed.
ScheduleEnters(t) ==
  /\ At(t, "schedule") /\ lock.owner # t
  /\ pc' = [pc EXCEPT ![t] = "enter"]
  /\ ret' = [ret EXCEPT ![t] = "schedule"]
  /\ UNCHANGED << lock, cpu, cached, tok, stok, callVars >>

\* The token is taken, the next thread chosen and made current; then sl_cs_exit.
Schedule(t) ==
  /\ At(t, "schedule") /\ lock.owner = t
  /\ \E u \in Thds :
       /\ Chosen(t, u)
       /\ picked' = [picked EXCEPT ![t] = u]
       /\ current_kthd' = u
  /\ target' = [target EXCEPT ![t] = NULL]
  /\ stok' = [stok EXCEPT ![t] = TRUE]
  /\ pc' = [pc EXCEPT ![t] = "exit"]
  /\ ret' = [ret EXCEPT ![t] = "switch"]
  /\ UNCHANGED << lock, state, ready, cpu, op, cached, tok, woken >>

\* Where a switch that succeeded, or failed, leaves a thread: the scheduler
\* loops in both cases, the others are done or choose again.
AfterSwitch(t, accepted) ==
  IF t = Sched THEN "enter" ELSE IF accepted THEN "client" ELSE "schedule"

\* Fault: the token is taken after sl_cs_exit.
Switch_FreshToken(t) ==
  /\ At(t, "switch")
  /\ pc' = [pc EXCEPT ![t] = AfterSwitch(t, TRUE)]
  /\ ret' = [ret EXCEPT ![t] = "body"]
  /\ picked' = [picked EXCEPT ![t] = Idle]
  /\ Switched(TRUE, picked[t])
  /\ UNCHANGED << lock, state, ready, current_kthd, op, target, cached, woken >>

Switch(t) ==
  /\ At(t, "switch")
  /\ pc' = [pc EXCEPT ![t] = AfterSwitch(t, stok[t])]
  /\ ret' = [ret EXCEPT ![t] = "body"]
  /\ picked' = [picked EXCEPT ![t] = Idle]
  /\ Switched(stok[t], picked[t])
  /\ UNCHANGED << lock, state, ready, current_kthd, op, target, cached, woken >>

-----------------------------------------------------------------------------
(* The calls.  Each enters the critical section, and does its work there.   *)

Call(t, f, u) ==
  /\ At(t, "client") /\ t \in Kthds
  /\ pc' = [pc EXCEPT ![t] = "enter"]
  /\ ret' = [ret EXCEPT ![t] = "body"]
  /\ op' = [op EXCEPT ![t] = f]
  /\ target' = [target EXCEPT ![t] = u]
  /\ UNCHANGED << lock, state, ready, current_kthd, cpu, cached, picked, tok, stok >>

sl_thd_block(t) == Call(t, "block", NULL) /\ UNCHANGED woken

\* Clients do not yield to a thread that does not exist (it is asserted).
sl_thd_yield(t, u) ==
  /\ u # NULL => state[u] # "SL_THD_FREE"
  /\ Call(t, "yield", u) /\ UNCHANGED woken

\* The wakeups called for u that are not done, and the one it has not used yet.
Ahead(u) ==
  Cardinality({t \in Kthds : op[t] = "wakeup" /\ target[t] = u})
  + IF woken[u] THEN 1 ELSE 0

sl_thd_wakeup(t, u) ==
  /\ Ahead(u) < MaxAhead
  /\ Call(t, "wakeup", u) /\ UNCHANGED woken

InBody(t, f) == At(t, "body") /\ op[t] = f

\* To sl_cs_exit and out, or on to the choice of the next thread.
Leaves(t) ==
  /\ pc' = [pc EXCEPT ![t] = "exit"]
  /\ ret' = [ret EXCEPT ![t] = "client"]
Schedules(t) ==
  /\ pc' = [pc EXCEPT ![t] = "schedule"]
  /\ UNCHANGED ret
bodyVars == << lock, current_kthd, cpu, cached, picked, tok, stok >>

BlockBody(t) ==
  /\ InBody(t, "block")
  /\ \/ /\ state[t] = "SL_THD_WOKEN"
        /\ state' = [state EXCEPT ![t] = "SL_THD_RUNNABLE"]
        /\ woken' = [woken EXCEPT ![t] = FALSE]
        /\ Leaves(t)
        /\ UNCHANGED ready
     \/ /\ state[t] # "SL_THD_WOKEN"
        /\ state' = [state EXCEPT ![t] = "SL_THD_BLOCKED"]
        /\ ready' = ready \ {t}
        /\ Schedules(t)
        /\ UNCHANGED woken
  /\ op' = [op EXCEPT ![t] = "loop"]
  /\ UNCHANGED << target, bodyVars >>

\* Fault: a wakeup that comes before the block is not remembered.
WakeupBody_Forgets(t) ==
  LET u == target[t]
  IN  /\ InBody(t, "wakeup")
      /\ op' = [op EXCEPT ![t] = "loop"]
      /\ target' = [target EXCEPT ![t] = NULL]
      /\ \/ /\ state[u] \in {"SL_THD_FREE", "SL_THD_RUNNABLE"}
            /\ woken' = [woken EXCEPT ![u] = state[u] = "SL_THD_RUNNABLE"]
            /\ Leaves(t)
            /\ UNCHANGED << state, ready >>
         \/ /\ state[u] \notin {"SL_THD_FREE", "SL_THD_RUNNABLE"}
            /\ state' = [state EXCEPT ![u] = "SL_THD_RUNNABLE"]
            /\ ready' = ready \cup {u}
            /\ Schedules(t)
            /\ UNCHANGED woken
      /\ UNCHANGED bodyVars

\* The assertion after the test for SL_THD_RUNNABLE assigns SL_THD_BLOCKED
\* instead of comparing: SL_THD_WOKEN is taken for SL_THD_BLOCKED.
WakeupBody(t) ==
  LET u == target[t]
  IN  /\ InBody(t, "wakeup")
      /\ op' = [op EXCEPT ![t] = "loop"]
      /\ target' = [target EXCEPT ![t] = NULL]
      /\ \/ /\ state[u] = "SL_THD_FREE"
            /\ Leaves(t)
            /\ UNCHANGED << state, ready, woken >>
         \/ /\ state[u] = "SL_THD_RUNNABLE"
            /\ state' = [state EXCEPT ![u] = "SL_THD_WOKEN"]
            /\ woken' = [woken EXCEPT ![u] = TRUE]
            /\ Leaves(t)
            /\ UNCHANGED ready
         \/ /\ state[u] \notin {"SL_THD_FREE", "SL_THD_RUNNABLE"}
            /\ state' = [state EXCEPT ![u] = "SL_THD_RUNNABLE"]
            /\ ready' = ready \cup {u}
            /\ Schedules(t)
            /\ UNCHANGED woken
      /\ UNCHANGED bodyVars

\* sl_mod_yield leaves the choice open; sl_sched_loop has no event to report.
OtherBody(t) ==
  /\ InBody(t, "yield") \/ InBody(t, "loop")
  /\ op' = [op EXCEPT ![t] = "loop"]
  /\ Schedules(t)
  /\ UNCHANGED << state, ready, target, woken, bodyVars >>

\* sl_thd_alloc and sl_thd_param_set, which enter no critical section.
sl_thd_alloc(t, u) ==
  /\ At(t, "client") /\ t \in Kthds
  /\ state[u] = "SL_THD_FREE"
  /\ state' = [state EXCEPT ![u] = "SL_THD_RUNNABLE"]
  /\ UNCHANGED << lock, ready, current_kthd, cpu, pc, ret, op, target,
                  cached, picked, tok, stok, woken >>

sl_thd_param_set(t, u) ==
  /\ At(t, "client") /\ t \in Kthds
  /\ state[u] = "SL_THD_RUNNABLE" /\ u \notin ready
  /\ ready' = ready \cup {u}
  /\ UNCHANGED << lock, state, current_kthd, cpu, pc, ret, op, target,
                  cached, picked, tok, stok, woken >>

-----------------------------------------------------------------------------
Library(t) ==
  \/ Sync(t) \/ EnterRead(t) \/ EnterCas(t) \/ EnterMark(t) \/ EnterSwitch(t)
  \/ ExitRead(t) \/ ExitCas(t) \/ ExitSwitch(t)
  \/ ScheduleEnters(t) \/ Schedule(t) \/ Switch(t)
  \/ BlockBody(t) \/ WakeupBody(t) \/ OtherBody(t)

Client(t) ==
  \/ sl_thd_block(t)
  \/ \E u \in Kthds : sl_thd_wakeup(t, u) \/ sl_thd_alloc(t, u) \/ sl_thd_param_set(t, u)
  \/ \E u \in Kthds \cup {NULL} : sl_thd_yield(t, u)

Next ==
  \/ Preempt
  \/ \E t \in Callers : Library(t)
  \/ \E t \in Kthds : Client(t)

\* The timer goes on ticking, and a thread that is given the processor again
\* and again executes an instruction: the tick is longer than that.  Client
\* code and the policy owe nobody anything.
Spec ==
  /\ Init /\ [][Next]_vars
  /\ WF_vars(Preempt)
  /\ \A t \in Callers : SF_vars(Library(t))

-----------------------------------------------------------------------------
(* Properties.                                                              *)

InSection(t) == pc[t] \in {"body"} \cup (ExitPlaces \ {"exit_switch"})

\* sl_cs_enter and sl_cs_exit keep all but one thread out of the scheduler's
\* data, wherever the processor is taken away.
MutualExclusion ==
  \A t, u \in Callers : InSection(t) /\ InSection(u) => t = u

\* "If these values are out of date, the scheduler synchronization tok will
\* catch it": a thread runs client code only while it can run; no stale choice
\* wakes a thread that has blocked, or starts one that does not exist.
BlockedStayOut ==
  cpu \in Kthds /\ pc[cpu] = "client" => state[cpu] \in {"SL_THD_RUNNABLE", "SL_THD_WOKEN"}

\* current_kthd is written before the lock is given up and the switch may
\* fail; yet client code, which finds its run queue by it, sees its own.
KthdCurrent ==
  cpu \in Kthds /\ pc[cpu] = "client" => current_kthd = cpu

\* "wakeup a thread that has (or soon will) block": a thread that was woken
\* since its last block does not stay blocked.  It holds as long as there is
\* one wakeup for each block.
NoLostWakeup == \A t \in Kthds : state[t] = "SL_THD_BLOCKED" => ~woken[t]

\* "recursive locks are not allowed" (sl_cs_enter_contention), and a thread
\* that blocks can run (sl_thd_block): what the code asserts.
AssertionsHold ==
  /\ \A t \in Callers : pc[t] \in {"enter_mark", "enter_switch"} => cached[t].owner # t
  /\ \A t \in Kthds : InBody(t, "block") => state[t] \in {"SL_THD_RUNNABLE", "SL_THD_WOKEN"}

\* A thread preempted in the critical section does not keep it: the scheduler
\* thread, which finds it taken, lends its owner the processor until it is out.
SectionLeft == lock.owner # NULL ~> lock.owner = NULL
=============================================================================
