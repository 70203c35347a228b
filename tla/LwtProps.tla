------------------------------ MODULE LwtProps ------------------------------
(***************************************************************************)
(* The correctness properties of Lwt.                                      *)
(***************************************************************************)
EXTENDS Lwt

-----------------------------------------------------------------------------
(* Threads and their lists.                                                 *)

\* Whatever sequence of __block_thread, __resume_thread, lwt_yield, lwt_create
\* and lwt_die led here, no thread is on two lists, twice on one, or on a list
\* its state does not call for, and the thread that executes can run.
NobodyMisplaced == ListsSound(sched)

\* Every thread is on the list its state calls for, and the processor is lost
\* (__lwt_schedule dispatches to the head of an empty list) only when no thread
\* can run.
NobodyForgotten == ListsComplete(sched)

\* lwt_info counts what is there: the four counters equal the numbers of
\* threads they stand for.  It holds as long as no thread waits on a group.
CountersExact ==
  LET Blocked(why) == {t \in Threads : sched.state[t] = "LWT_BLOCKED" /\ sched.block_for[t] = why}
  IN  /\ sched.nrcving = Cardinality(Blocked("BLOCKED_RECEIVING"))
      /\ sched.nsnding = Cardinality(Blocked("BLOCKED_SENDING"))
      /\ sched.block_counter = sched.nrcving + sched.nsnding
      /\ sched.zombie_counter = Cardinality({t \in Threads : pc[t] = "lwt_die"})

\* A thread is dead, and its block open to the next lwt_create, only after its
\* parent has called lwt_join on it and has been given its last word.
LastWordFirst ==
  \A t \in Threads : sched.state[t] = "LWT_ZOMBIES" =>
     /\ t \in joined
     /\ ~\E p \in Threads : AsleepOn(p, thd[t].chl)

-----------------------------------------------------------------------------
(* Channels.                                                                *)

\* A sender blocks only behind a full buffer, and a channel that holds a
\* message shows an event: ready is all that lwt_cgrp_wait looks at.
EventsVisible ==
  \A c \in Chans : chan[c].live =>
     /\ Len(chan[c].buffer) <= chan[c].size
     /\ sched.queue[c] # << >> => BufferFull(c)
     /\ chan[c].buffer # << >> \/ sched.queue[c] # << >> => chan[c].ready

\* Conversely a channel shows an event only if it holds a message, also when
\* it was made in the memory of an earlier channel.
NoStaleEvent ==
  \A c \in Chans : chan[c].live /\ chan[c].ready =>
     chan[c].buffer # << >> \/ sched.queue[c] # << >>

\* No thread sleeps in lwt_rcv, lwt_rcv_chan or lwt_join on a channel that
\* holds a message, and senders to that channel will find it.
ReceiversAwake ==
  \A t \in Threads, c \in Chans : AsleepOn(t, c) =>
     /\ chan[c].live /\ chan[c].receiver = t
     /\ sched.block_for[t] = "BLOCKED_RECEIVING"
     /\ chan[c].buffer = << >> /\ sched.queue[c] = << >>

AsleepInWait(t, g) ==
  sched.state[t] = "LWT_BLOCKED" /\ pc[t] = "lwt_cgrp_wait" /\ arg[t] = g

\* No thread sleeps in lwt_cgrp_wait while a channel of its group has an
\* event, and senders to the channels of the group will resume it.
OwnersAwake ==
  \A t \in Threads, g \in Groups : AsleepInWait(t, g) =>
     /\ grp[g].live /\ grp[g].owner = t /\ grp[g].blocked
     /\ \A i \in DOMAIN chl_list[g] : /\ ~chan[chl_list[g][i]].ready
                                      /\ chan[chl_list[g][i]].cgroup = g

\* cgrp->blocked is set only while the owner is inside lwt_cgrp_wait on that
\* group, and nobody waits on a group that is not its own or has been freed:
\* senders that find blocked set resume the thread that waits, no other.
BlockedOwnersWait ==
  /\ \A g \in Groups : grp[g].blocked =>
       /\ grp[g].owner \in Threads
       /\ pc[grp[g].owner] = "lwt_cgrp_wait" /\ arg[grp[g].owner] = g
  /\ \A t \in Threads : pc[t] = "lwt_cgrp_wait" =>
       arg[t] \in Groups /\ grp[arg[t]].live /\ grp[arg[t]].owner = t

\* The channel lwt_cgrp_wait returned still holds a message when its receiver
\* comes to lwt_rcv, which therefore does not block.
EventHonoured ==
  \A t \in Threads : event[t] # NULL =>
     chan[event[t]].buffer # << >> \/ sched.queue[event[t]] # << >>

\* Memory that a thread, a message or a group can still reach is not free: no
\* reference, receiver, sleeping thread or undelivered message is of a channel
\* that lwt_chan_deref has freed.
NoUseAfterFree ==
  \A c \in Chans : ~chan[c].live =>
     /\ chan[c].receiver = NULL
     /\ \A t \in Threads : refs[c][t] = 0 /\ ~AsleepOn(t, c) /\ event[t] # c
     /\ sched.queue[c] = << >>
     /\ ~InFlight(c)
     /\ \A g \in Groups : grp[g].live => \A i \in DOMAIN chl_list[g] : chl_list[g][i] # c

\* A channel is in the list of the group its cgroup field names, once, and in
\* no other list.
GroupsPartition ==
  /\ OnePlace(chl_list)
  /\ \A c \in Chans, g \in Groups : OnList(chl_list, g, c) <=> chan[c].cgroup = g

\* The channels implement first-in first-out queues.
Fifo == INSTANCE FifoChannels WITH
  open <- [c \in Chans |-> chan[c].live],
  queue <- [c \in Chans |-> IF chan[c].live THEN Pending(c) ELSE << >>]

ImplementsFifo == Fifo!Spec

\* "send data through a channel": what lwt_snd takes from a sender is pending
\* from then on, in the buffer, with the blocked sender or in the hands of the
\* receiver, unless the channel has no receiver (-1).
SentIsPending ==
  [][\A c \in Chans, v \in Data :
        lwt_snd(c, v) => chan[c].receiver = NULL \/ Pending(c)' = Append(Pending(c), v)]_vars
=============================================================================
