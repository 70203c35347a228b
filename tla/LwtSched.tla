------------------------------ MODULE LwtSched ------------------------------
(***************************************************************************)
(* The cooperative scheduler of one kernel thread: the part of struct      *)
(* _kthd_info and of the threads that scheduling reads and writes, and the *)
(* functions of lwt.c and lwt_chl.c that every other operation is made of. *)
(* A scheduler state is a record                                           *)
(*                                                                         *)
(*   queue           the lists a thread's list_node can be on              *)
(*   state           lwt_t->state, "UNUSED" before the struct is allocated *)
(*   block_for       lwt_t->block_for                                      *)
(*   current_thread  NULL once __lwt_schedule found an empty run queue     *)
(*   block_counter, zombie_counter, nrcving, nsnding                       *)
(*                                                                         *)
(* and each function is an operator from a scheduler state k to the next   *)
(* one, so that callers compose them in the order of the code.  Only the   *)
(* current thread executes, and it gives the processor up only by calling  *)
(* lwt_schedule: threads of one kernel thread are not preempted by each    *)
(* other.  polling_flag is set nowhere in the code, so the branch of       *)
(* __lwt_schedule under it is never taken and is left out here.            *)
(***************************************************************************)
EXTENDS LwtList

CONSTANTS Threads,    \* blocks of memory for struct _lwt_t
          Chans,      \* blocks of memory for struct _lwt_channel
          MainThread, \* the thread __initiate makes of the kernel thread
          MaxDrift,   \* bound: counters are not followed below -MaxDrift
          NULL

ASSUME SchedAssumption ==
  /\ MainThread \in Threads
  /\ MaxDrift \in Nat
  /\ NULL \notin Threads \cup Chans
  /\ {"run_queue", "recycle_queue"} \cap Chans = {}

\* A head is a queue of the kernel thread, or a channel: its sender_queue.
Heads == {"run_queue", "recycle_queue"} \cup Chans

States == {"UNUSED", "LWT_RUNNABLE", "LWT_BLOCKED", "LWT_ZOMBIES", "LWT_RUNNING"}
BlockStatus == {"BLOCKED_RECEIVING", "BLOCKED_SENDING"}

Sched == [queue : [Heads -> Seq(Threads)],
          state : [Threads -> States],
          block_for : [Threads -> BlockStatus],
          current_thread : Threads \cup {NULL},
          block_counter : Int, zombie_counter : Int,
          nrcving : Int, nsnding : Int]

\* init_kthd and __initiate: the main thread runs, every counter is 0.
SchedInit ==
  [queue |-> [h \in Heads |-> IF h = "run_queue" THEN << MainThread >> ELSE << >>],
   state |-> [t \in Threads |-> IF t = MainThread THEN "LWT_RUNNING" ELSE "UNUSED"],
   block_for |-> [t \in Threads |-> "BLOCKED_RECEIVING"],
   current_thread |-> MainThread,
   block_counter |-> 0, zombie_counter |-> 0, nrcving |-> 0, nsnding |-> 0]

-----------------------------------------------------------------------------
\* lwt_yield accepts both states: a thread that was switched out by a yield
\* keeps LWT_RUNNING.
IsRunnable(k, t) == k.state[t] \in {"LWT_RUNNABLE", "LWT_RUNNING"}

\* __lwt_schedule runs the first thread of the run queue.  The first of an
\* empty list is not a thread: the processor is lost.
lwt_schedule(k) ==
  IF k.queue["run_queue"] = << >>
    THEN [k EXCEPT !.current_thread = NULL]
    ELSE LET new_thread == Head(k.queue["run_queue"])
         IN  [k EXCEPT !.current_thread = new_thread,
                       !.state = [@ EXCEPT ![new_thread] = "LWT_RUNNING"]]

\* list_rem_d(t), then t to the end of the run queue.
ToEnd(k, t) ==
  [k EXCEPT !.queue = list_head_add(list_rem(@, t), "run_queue", t)]

\* Fault: t is linked again without being unlinked.
ToFront_StillLinked(k, t) == [k EXCEPT !.queue = list_head_append(@, "run_queue", t)]

\* list_rem_d(t), then t in front of the last thread of the run queue.
ToFront(k, t) ==
  [k EXCEPT !.queue = list_head_append(list_rem(@, t), "run_queue", t)]

\* lwt_yield(NULL): the current thread goes to the end, unless it has just
\* been blocked.
lwt_yield_null(k) ==
  lwt_schedule(IF IsRunnable(k, k.current_thread) THEN ToEnd(k, k.current_thread) ELSE k)

\* lwt_yield(t): the current thread stays where it is.
lwt_yield_to(k, t) ==
  IF t = k.current_thread \/ ~IsRunnable(k, t) THEN k ELSE lwt_schedule(ToFront(k, t))

\* Fault: list_rem_d after, not before, list_head_add_d.
Parked_RemovedLast(q, t, block_for, c) ==
  IF block_for = "BLOCKED_SENDING" THEN list_rem(list_head_add(q, c, t), t)
                                   ELSE list_rem(q, t)

\* Where the node of a thread that blocks goes: off the run queue, and at the
\* end of the sender queue of the channel c it sends on.
Parked(q, t, block_for, c) ==
  IF block_for = "BLOCKED_SENDING" THEN list_head_add(list_rem(q, t), c, t)
                                   ELSE list_rem(q, t)

\* __block_thread of the current thread.
block_thread(k, block_for, c) ==
  LET t == k.current_thread
      sending == block_for = "BLOCKED_SENDING"
  IN  lwt_yield_null(
        [k EXCEPT !.queue = Parked(@, t, block_for, c),
                  !.state = [@ EXCEPT ![t] = "LWT_BLOCKED"],
                  !.block_for = [@ EXCEPT ![t] = block_for],
                  !.block_counter = @ + 1,
                  !.nrcving = IF sending THEN @ ELSE @ + 1,
                  !.nsnding = IF sending THEN @ + 1 ELSE @])

\* Fault: a resumed thread is still counted as blocked.
Less_Kept(n) == n

\* Resuming a thread that is not blocked makes a counter lose count, without
\* end.  The code only reports the counters (lwt_info), so stopping at a
\* bound changes nothing else.
Less(n) == IF n > -MaxDrift THEN n - 1 ELSE n

\* __resume_thread: the counters go by block_for, whatever t's state is.
resume_thread(k, t) ==
  ToFront([k EXCEPT !.nrcving = IF k.block_for[t] = "BLOCKED_RECEIVING" THEN Less(@) ELSE @,
                    !.nsnding = IF k.block_for[t] = "BLOCKED_SENDING" THEN Less(@) ELSE @,
                    !.block_counter = Less(@),
                    !.state = [@ EXCEPT ![t] = "LWT_RUNNABLE"]], t)

\* What lwt_create does to the scheduler: t is the head of the recycle queue
\* or a new block, and its state is LWT_RUNNING from the start.
SchedCreate(k, t) ==
  ToEnd([k EXCEPT !.state = [@ EXCEPT ![t] = "LWT_RUNNING"]], t)

\* lwt_die before and after it has sent the last word.
SchedDying(k) == [k EXCEPT !.zombie_counter = @ + 1]

\* Fault: zombie_counter is not decreased again.
SchedDead_StillCounted(k) ==
  LET t == k.current_thread
  IN  lwt_schedule(
        [k EXCEPT !.state = [@ EXCEPT ![t] = "LWT_ZOMBIES"],
                  !.queue = list_head_add(list_rem(@, t), "recycle_queue", t)])

SchedDead(k) ==
  LET t == k.current_thread
  IN  lwt_schedule(
        [k EXCEPT !.state = [@ EXCEPT ![t] = "LWT_ZOMBIES"],
                  !.zombie_counter = @ - 1,
                  !.queue = list_head_add(list_rem(@, t), "recycle_queue", t)])

-----------------------------------------------------------------------------
\* What the lists may hold.  A node is in one place; a thread on the run
\* queue can run; only the dead are recycled; only a thread blocked sending
\* is on a sender queue.
Placed(k) ==
  /\ OnePlace(k.queue)
  /\ \A t \in Threads :
       /\ OnList(k.queue, "run_queue", t) => IsRunnable(k, t)
       /\ OnList(k.queue, "recycle_queue", t) => k.state[t] = "LWT_ZOMBIES"
       /\ \A c \in Chans : OnList(k.queue, c, t) =>
            k.state[t] = "LWT_BLOCKED" /\ k.block_for[t] = "BLOCKED_SENDING"

\* The thread that executes is on the run queue and marked running.
CurrentRuns(k) ==
  k.current_thread # NULL => /\ OnList(k.queue, "run_queue", k.current_thread)
                             /\ k.state[k.current_thread] = "LWT_RUNNING"

ListsSound(k) == Placed(k) /\ CurrentRuns(k)

\* What the lists must hold.  No thread is forgotten: one that can run is on
\* the run queue, one blocked sending is on a sender queue, a dead one is
\* waiting to be recycled; the processor is lost only when nobody can run.
ListsComplete(k) ==
  /\ \A t \in Threads :
       /\ IsRunnable(k, t) => OnList(k.queue, "run_queue", t)
       /\ k.state[t] = "LWT_ZOMBIES" => OnList(k.queue, "recycle_queue", t)
       /\ k.state[t] = "LWT_BLOCKED" /\ k.block_for[t] = "BLOCKED_SENDING" =>
            \E c \in Chans : OnList(k.queue, c, t)
  /\ k.current_thread = NULL => k.queue["run_queue"] = << >>
=============================================================================
