----------------------------- MODULE GlobalChan -----------------------------
(***************************************************************************)
(* A channel of type GLOBAL_CHAN between kernel threads: lwt_sync_snd,     *)
(* lwt_sync_rcv, cas_lock and cas_unlock, with lwt_kthd_create and the     *)
(* trampoline of the kernel threads that use them.  The receiver is a      *)
(* thread of one kernel thread, which it shares with its main thread under *)
(* the cooperative scheduler of LwtSched; each sender is the thread that   *)
(* sends in another kernel thread.  Kernel threads are preempted between   *)
(* any two accesses to what they share: the ring, its lock, the wakeup     *)
(* queue of the receiver's kernel thread and its lock.                     *)
(***************************************************************************)
EXTENDS LwtSched

CONSTANTS Senders,    \* kernel threads that send
          Receiver,   \* the thread that receives
          Size,       \* size of the channel
          MaxSends,   \* bound: messages of one sender
          MaxPending, \* bound: senders keep at most so many unread
          MainReturns \* whether the function of the receiver's kthd may return

ASSUME GlobalAssumption ==
  /\ Threads = {MainThread, Receiver} /\ Receiver # MainThread
  /\ Size \in Nat \ {0} /\ MaxSends \in Nat /\ MaxPending \in Nat
  /\ MainReturns \in BOOLEAN

VARIABLES
  kthd,          \* kthd[s]: how far lwt_kthd_create has come with s
  pc,            \* where in lwt_sync_snd a sender is
  n,             \* n[s]: messages s has begun to send
  at,            \* at[s]: the index s has read from tail
  last,          \* last[s]: the wakeup queue as list_head_add_d has found it
  head, tail, slots, rb_occupied,        \* the channel
  wakeup_queue, wq_occupied,             \* kthds[] of the receiver
  sched,         \* threads of the receiver's kernel thread
  rcv,           \* where in lwt_sync_rcv the receiver is: "client", "check",
                 \* "take" or "blocked"
  main,          \* what its main thread executes: "function", "trampoline" or
                 \* "sl_thd_block"
  log, got       \* history: messages in the order of rb_occupied; received ones

chanVars == << head, tail, slots, rb_occupied >>
queueVars == << wakeup_queue, wq_occupied >>
homeVars == << sched, rcv, main >>
vars == << kthd, pc, n, at, last, chanVars, queueVars, homeVars, log, got >>

Messages == Senders \X (1 .. MaxSends)
Places == {"client", "lock", "store", "stored", "unlock",
           "wq_lock", "enqueue", "link", "wq_unlock"}

\* What the senders and the receiver share, and the locals of the senders.
TypeOK ==
  /\ pc \in [Senders -> Places]
  /\ n \in [Senders -> 0 .. MaxSends] /\ at \in [Senders -> Nat]
  /\ last \in [Senders -> Seq(Messages)]
  /\ tail \in Nat
  /\ slots \in [0 .. Size - 1 -> Messages \cup {NULL}]
  /\ rb_occupied \in 0 .. 1 /\ wq_occupied \in 0 .. 1
  /\ wakeup_queue \in Seq(Messages)
  /\ log \in Seq(Messages)

\* The receiver has made the channel; senders are created afterwards.
Init ==
  /\ kthd = [s \in Senders |-> "none"]
  /\ pc = [s \in Senders |-> "client"]
  /\ n = [s \in Senders |-> 0] /\ at = [s \in Senders |-> 0]
  /\ last = [s \in Senders |-> << >>]
  /\ head = 0 /\ tail = 0 /\ slots = [i \in 0 .. Size - 1 |-> NULL]
  /\ rb_occupied = 0 /\ wq_occupied = 0
  /\ wakeup_queue = << >>
  /\ sched = SchedCreate(SchedInit, Receiver)
  /\ rcv = "client" /\ main = "function"
  /\ log = << >> /\ got = << >>

-----------------------------------------------------------------------------
(* Kernel threads.                                                          *)

KthdStep(s, from, to) == kthd[s] = from /\ kthd' = [kthd EXCEPT ![s] = to]

\* sl_thd_alloc, __initiate and sl_thd_param_set, with which the scheduling
\* policy takes the kernel thread up.
lwt_kthd_create(s) ==
  /\ \/ KthdStep(s, "none", "allocated")
     \/ KthdStep(s, "allocated", "initiated")
     \/ KthdStep(s, "initiated", "ready")
  /\ UNCHANGED << pc, n, at, last, chanVars, queueVars, homeVars, log, got >>

-----------------------------------------------------------------------------
(* lwt_sync_snd.                                                            *)

message(s) == << s, n[s] >>
Goes(s, from, to) == pc[s] = from /\ pc' = [pc EXCEPT ![s] = to]

\* lwt_snd on a global channel.
lwt_sync_snd(s) ==
  /\ kthd[s] = "ready"
  /\ n[s] < MaxSends /\ tail - head < MaxPending
  /\ Goes(s, "client", "lock")
  /\ n' = [n EXCEPT ![s] = @ + 1]
  /\ UNCHANGED << kthd, at, last, chanVars, queueVars, homeVars, log, got >>

\* Fault: the lock is taken without looking at it.
Free_Unchecked(lock) == TRUE

\* cas_lock retries until the word is 0.
Free(lock) == lock = 0

LockRing(s) ==
  /\ Free(rb_occupied)
  /\ Goes(s, "lock", "store")
  /\ rb_occupied' = 1 /\ at' = [at EXCEPT ![s] = tail]
  /\ UNCHANGED << kthd, n, last, head, tail, slots, queueVars, homeVars, log, got >>

\* The statement stores into the ring and into tail; the compiler is free to
\* put either first.
StoreSlot(s) == slots' = [slots EXCEPT ![at[s] % Size] = message(s)] /\ UNCHANGED tail
StoreTail(s) == tail' = at[s] + 1 /\ UNCHANGED slots

FirstStore(s) ==
  /\ Goes(s, "store", "stored")
  /\ StoreSlot(s) \/ StoreTail(s)
  /\ UNCHANGED << kthd, n, at, last, head, rb_occupied, queueVars, homeVars, log, got >>

SecondStore(s) ==
  /\ Goes(s, "stored", "unlock")
  /\ IF tail = at[s] THEN StoreTail(s) ELSE StoreSlot(s)
  /\ log' = Append(log, message(s))
  /\ UNCHANGED << kthd, n, at, last, head, rb_occupied, queueVars, homeVars, got >>

\* Fault: the lock is not given back.
UnlockRing_Kept(s) ==
  /\ Goes(s, "unlock", "wq_lock")
  /\ UNCHANGED << kthd, n, at, last, chanVars, queueVars, homeVars, log, got >>

UnlockRing(s) ==
  /\ Goes(s, "unlock", "wq_lock")
  /\ rb_occupied' = 0 /\ at' = [at EXCEPT ![s] = 0]
  /\ UNCHANGED << kthd, n, last, head, tail, slots, queueVars, homeVars, log, got >>

\* Fault: the lock of the ring, which is free by now, is taken for the queue.
LockQueue_RingLock(s) ==
  /\ Free(rb_occupied)
  /\ Goes(s, "wq_lock", "enqueue")
  /\ UNCHANGED << kthd, n, at, last, chanVars, queueVars, homeVars, log, got >>

LockQueue(s) ==
  /\ Free(wq_occupied)
  /\ Goes(s, "wq_lock", "enqueue")
  /\ wq_occupied' = 1
  /\ UNCHANGED << kthd, n, at, last, chanVars, wakeup_queue, homeVars, log, got >>

\* list_head_add_d of a wrap reads the end of the queue and then links to it.
Enqueue(s) ==
  /\ Goes(s, "enqueue", "link")
  /\ last' = [last EXCEPT ![s] = wakeup_queue]
  /\ UNCHANGED << kthd, n, at, chanVars, queueVars, homeVars, log, got >>

Link(s) ==
  /\ Goes(s, "link", "wq_unlock")
  /\ wakeup_queue' = Append(last[s], message(s))
  /\ last' = [last EXCEPT ![s] = << >>]
  /\ UNCHANGED << kthd, n, at, chanVars, wq_occupied, homeVars, log, got >>

UnlockQueue(s) ==
  /\ Goes(s, "wq_unlock", "client")
  /\ wq_occupied' = 0
  /\ UNCHANGED << kthd, n, at, last, chanVars, wakeup_queue, homeVars, log, got >>

SndStep(s) ==
  \/ LockRing(s) \/ FirstStore(s) \/ SecondStore(s) \/ UnlockRing(s)
  \/ LockQueue(s) \/ Enqueue(s) \/ Link(s) \/ UnlockQueue(s)

-----------------------------------------------------------------------------
(* The receiver's kernel thread: lwt_sync_rcv and the main thread.          *)

senderVars == << kthd, pc, n, at, last, tail, slots, rb_occupied, queueVars, log >>

ReceiverRuns == sched.current_thread = Receiver
MainRuns == sched.current_thread = MainThread

lwt_sync_rcv ==
  /\ ReceiverRuns /\ rcv = "client"
  /\ rcv' = "check"
  /\ UNCHANGED << senderVars, head, sched, main, got >>

\* The ring is looked at without its lock.
Check ==
  /\ ReceiverRuns /\ rcv = "check"
  /\ rcv' = IF tail # head THEN "take" ELSE "blocked"
  /\ UNCHANGED << senderVars, head, sched, main, got >>

Take ==
  /\ ReceiverRuns /\ rcv = "take"
  /\ got' = Append(got, slots[head % Size])
  /\ head' = head + 1
  /\ rcv' = "client"
  /\ UNCHANGED << senderVars, sched, main >>

\* now_rcving, list_rem_d, the counters and the state as in __block_thread.
RcvBlocks(k) == block_thread(k, "BLOCKED_RECEIVING", NULL)

Block ==
  /\ ReceiverRuns /\ rcv = "blocked"
  /\ sched' = RcvBlocks(sched)
  /\ rcv' = "check"
  /\ UNCHANGED << senderVars, head, main, got >>

\* The receiver and the function of the main thread yield when they like.
Yield ==
  /\ \/ ReceiverRuns /\ rcv = "client"
     \/ MainRuns /\ main = "function"
  /\ sched' = lwt_yield_null(sched)
  /\ UNCHANGED << senderVars, head, rcv, main, got >>

FunctionReturns ==
  /\ MainReturns /\ MainRuns /\ main = "function"
  /\ main' = "trampoline"
  /\ UNCHANGED << senderVars, head, sched, rcv, got >>

\* Fault: the kernel thread blocks whoever else can run.
Trampoline_Always == MainRuns /\ main = "trampoline"

\* The trampoline goes round without yielding while the run queue has others.
Trampoline ==
  /\ MainRuns /\ main = "trampoline"
  /\ Len(sched.queue["run_queue"]) = 1

\* sl_thd_block(0): the calls of sl_thd_wakeup are commented out.
KthdBlocks ==
  /\ Trampoline
  /\ main' = "sl_thd_block"
  /\ UNCHANGED << senderVars, head, sched, rcv, got >>

HomeStep == lwt_sync_rcv \/ Check \/ Take \/ Block \/ Yield \/ FunctionReturns \/ KthdBlocks

Next ==
  \/ \E s \in Senders : lwt_kthd_create(s) \/ lwt_sync_snd(s) \/ SndStep(s)
  \/ HomeStep

Spec == Init /\ [][Next]_vars

\* Every kernel thread that can run is dispatched again and again, and the
\* test's main thread keeps yielding.  The code does not promise that much: its
\* kernel threads have fixed priorities.  What fails under this fails in the code.
FairSpec ==
  /\ Spec
  /\ \A s \in Senders : WF_vars(SndStep(s))
  /\ WF_vars(lwt_sync_rcv \/ Check \/ Take \/ Block)
  /\ WF_vars(MainRuns /\ Yield)

-----------------------------------------------------------------------------
(* Properties.                                                              *)

\* The lock keeps the two stores of a sender together: when nobody is inside,
\* tail counts the messages stored, and each place of the ring holds the last
\* message that was stored there, so a message is lost to a full ring only.
RingKeepsMessages ==
  (\A s \in Senders : pc[s] \notin {"store", "stored"}) =>
     /\ tail = Len(log)
     /\ \A i \in 1 .. Len(log) : i + Size > Len(log) => slots[(i - 1) % Size] = log[i]

\* The queue of the receiver's kernel thread has a wrap for every message that
\* has been sent completely, in whatever order the senders were preempted.
EveryMessageAnnounced ==
  \A s \in Senders, i \in 1 .. MaxSends :
     i < n[s] \/ (i = n[s] /\ pc[s] \in {"client", "wq_unlock"}) =>
       \E j \in 1 .. Len(wakeup_queue) : wakeup_queue[j] = << s, i >>

\* The kernel thread sleeps in sl_thd_block only when its main thread is alone
\* in the run queue, and a receiver that sleeps is on no queue.
SleepsAlone ==
  /\ main = "sl_thd_block" =>
       sched.queue["run_queue"] = << MainThread >> /\ ~IsRunnable(sched, Receiver)
  /\ sched.state[Receiver] = "LWT_BLOCKED" =>
       ~OnList(sched.queue, "run_queue", Receiver)

\* Each lock word is 1 exactly while one sender, and no second, is between
\* cas_lock and cas_unlock: a sender spins in cas_lock only while there is
\* somebody who will give the lock back, and who waits for no lock meanwhile.
LocksHaveHolders ==
  /\ rb_occupied = Cardinality({s \in Senders : pc[s] \in {"store", "stored", "unlock"}})
  /\ wq_occupied = Cardinality({s \in Senders : pc[s] \in {"enqueue", "link", "wq_unlock"}})

\* lwt_chl.c, lwt_rcv: "block the thread and wait till data sent by the
\* sender".  A receiver that blocks goes on when there is data.
BlockedReceiverGoesOn ==
  (sched.state[Receiver] = "LWT_BLOCKED" /\ tail # head)
     ~> sched.state[Receiver] # "LWT_BLOCKED"
=============================================================================
