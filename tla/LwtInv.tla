------------------------------- MODULE LwtInv -------------------------------
(***************************************************************************)
(* What has to be true besides the properties of LwtProps for those to     *)
(* survive every call: the inductive invariants of the proofs, stated      *)
(* apart from them so that TLC can check them too.                         *)
(***************************************************************************)
EXTENDS LwtProps

Sending(t) == pc[t] \in {"lwt_snd", "lwt_snd_chan", "lwt_die"}

-----------------------------------------------------------------------------
(* Whoever the client is.                                                   *)

\* A block that is free belongs to nobody.
FreeUnowned == \A c \in Chans : ~chan[c].live => c \notin made /\ chan[c].receiver = NULL

\* A thread's own channel is its alone, is received from by its parent, and is
\* never freed: no client ever holds it.
OwnChannels ==
  \A t \in Threads : thd[t].chl # NULL =>
     /\ thd[t].chl \notin made /\ chan[thd[t].chl].live /\ chan[thd[t].chl].size = 0
     /\ thd[t].parent \in Threads /\ chan[thd[t].chl].receiver = thd[t].parent
     /\ \A u \in Threads \ {t} : thd[u].chl # thd[t].chl

\* A blocked sender is inside a call that sends, on its own channel or on one
\* it holds a reference of.
SendersHold ==
  \A c \in Chans, t \in Threads : OnList(sched.queue, c, t) =>
     /\ Sending(t)
     /\ IF pc[t] = "lwt_die" THEN c = thd[t].chl ELSE refs[c][t] > 0

\* A thread sleeps only inside a call that sends, receives or waits.
SleepersInside ==
  \A t \in Threads : sched.state[t] = "LWT_BLOCKED" =>
     IF sched.block_for[t] = "BLOCKED_SENDING" THEN Sending(t)
                                               ELSE InRcv(t) \/ pc[t] = "lwt_cgrp_wait"

\* A thread inside lwt_rcv is the receiver of the channel now_rcving names.
ReceiversOwn ==
  \A t \in Threads : InRcv(t) => \E c \in Chans :
     thd[t].now_rcving = c /\ chan[c].receiver = t

\* A channel in a group has the owner of the group for receiver.
MembersOwned ==
  \A c \in Chans : chan[c].cgroup # NULL =>
     /\ c \in made
     /\ chan[c].receiver \in Threads /\ chan[c].receiver = grp[chan[c].cgroup].owner

\* blocked is set as long as a thread is inside lwt_cgrp_wait.
WaitersBlocked == \A t \in Threads : pc[t] = "lwt_cgrp_wait" => grp[arg[t]].blocked

\* A channel holds no more than its size, its senders block only behind a full
\* buffer, and it shows an event as long as it holds a message.
EventsShown ==
  \A c \in Chans :
     /\ Len(chan[c].buffer) <= chan[c].size
     /\ sched.queue[c] # << >> => BufferFull(c)
     /\ chan[c].buffer # << >> \/ sched.queue[c] # << >> => chan[c].ready

\* The channel lwt_cgrp_wait gave to a thread is still in its group and shows
\* its event.
EventsKept ==
  \A t \in Threads : event[t] # NULL =>
     /\ chan[event[t]].receiver = t /\ chan[event[t]].cgroup # NULL
     /\ chan[event[t]].ready

ChansInv ==
  /\ FreeUnowned /\ OwnChannels /\ SendersHold /\ SleepersInside
  /\ ReceiversOwn /\ ReceiversAwake /\ MembersOwned /\ WaitersBlocked
  /\ EventsShown /\ EventsKept /\ OwnersAwake

-----------------------------------------------------------------------------
(* If no last reference of a channel in flight is dropped.                  *)

\* The references of c that the threads hold, one by one.
Held(c) == UNION {{t} \X (1 .. refs[c][t]) : t \in Threads}

\* snd_cnt counts all references clients hold (and those the dead held), and
\* nobody holds a reference of a channel that clients cannot name.
RefsCounted ==
  \A c \in Chans :
     /\ \A t \in Threads : refs[c][t] >= 0
     /\ c \in made => IsFiniteSet(Held(c)) /\ Cardinality(Held(c)) <= chan[c].snd_cnt
     /\ c \notin made => \A t \in Threads : refs[c][t] = 0

\* A channel on its way to another thread is still there.
FlightsLand == \A x \in Chans : InFlight(x) => x \in made

\* Nobody waits in the queue of a free channel.
FreeQuiet == \A c \in Chans : ~chan[c].live => sched.queue[c] = << >>

RefsInv == RefsCounted /\ FlightsLand /\ FreeQuiet

-----------------------------------------------------------------------------
(* If, besides, no receiver leaves messages behind.                         *)

\* A channel without a receiver holds nothing, and one that shows an event
\* holds a message, in use or not.
EventsTrue ==
  \A c \in Chans :
     /\ chan[c].receiver = NULL => chan[c].buffer = << >>
     /\ chan[c].ready => chan[c].buffer # << >> \/ sched.queue[c] # << >>

-----------------------------------------------------------------------------
(* If nobody waits on groups who can still be sent a message on the channel *)
(* it blocked on last.                                                      *)

\* A message is handed only to a thread inside lwt_rcv, lwt_rcv_chan or
\* lwt_join.
WaitersUnaddressed ==
  \A t \in Threads : pc[t] = "lwt_cgrp_wait" =>
     \A c \in Chans : thd[t].now_rcving = c /\ chan[c].receiver = t => ~Addressed(c)

\* A thread that has been joined is on its way out, or its parent sleeps until
\* it is; and a thread leaves only then.
JoinsMeet ==
  \A t \in Threads :
     /\ t \in joined => \/ sched.state[t] = "LWT_ZOMBIES"
                        \/ pc[t] = "lwt_die" /\ IsRunnable(sched, t)
                        \/ thd[t].chl # NULL /\ AsleepOn(thd[t].parent, thd[t].chl)
     /\ sched.state[t] = "LWT_ZOMBIES" \/ (pc[t] = "lwt_die" /\ IsRunnable(sched, t)) =>
          /\ t \in joined
          /\ \A p \in Threads : ~AsleepOn(p, thd[t].chl)
     /\ \A p \in Threads : AsleepOn(p, thd[t].chl) => t \in joined

JoinsInv == WaitersUnaddressed /\ JoinsMeet
=============================================================================
