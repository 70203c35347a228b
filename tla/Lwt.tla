-------------------------------- MODULE Lwt --------------------------------
(***************************************************************************)
(* The thread, channel and channel-group API of lwt.c and lwt_chl.c for    *)
(* the threads of one kernel thread and local channels (LOCAL_CHAN).       *)
(*                                                                         *)
(* The current thread either is in client code (pc = "client") and makes   *)
(* any call the client discipline below allows, or is inside the API       *)
(* function pc names, has been switched out there, and goes on where it    *)
(* stopped.  Between two calls of __lwt_schedule nothing else runs, so one *)
(* action is the whole stretch of code between two switches.               *)
(***************************************************************************)
EXTENDS LwtSched

CONSTANTS Groups,   \* blocks of memory for struct _lwt_cgrp
          Data,     \* messages that are not channels, and last words
          Sizes,    \* buffer sizes the client asks for
          MaxRefs,  \* bound: sender references of one channel
          Ops,      \* the calls the client makes
          Careless  \* the rules of the discipline the client does not keep

ASSUME LwtAssumption ==
  /\ NULL \notin Groups
  /\ Data \cap Chans = {}
  /\ Sizes \subseteq Nat /\ MaxRefs \in Nat

VARIABLES
  sched,      \* scheduler state (LwtSched)
  thd,        \* the other fields of struct _lwt_t
  chan,       \* struct _lwt_channel, live while the block is allocated
  grp,        \* struct _lwt_cgrp without its list
  chl_list,   \* the lists of the groups
  pc, arg,    \* the API function a thread is inside, and what it was called on
  \* what the clients know, not a field of any struct:
  made,       \* the channels lwt_chan has returned, which clients can name
  event,      \* the channel lwt_cgrp_wait gave to t, until t receives from it
  refs,       \* refs[c][t]: sender references of c that t holds
  joined,     \* threads their parent has called lwt_join on
  delivered   \* channel and value of the last lwt_rcv that returned

vars == << sched, thd, chan, grp, chl_list, pc, arg, made, event, refs, joined, delivered >>
clientVars == << made, event, refs, joined, delivered >>

Values == Data \cup Chans
me == sched.current_thread

ThreadFields == [parent : Threads \cup {NULL}, nojoin : BOOLEAN,
                 message_data : Values \cup {NULL},
                 chl : Chans \cup {NULL}, now_rcving : Chans \cup {NULL}]
Channel == [live : BOOLEAN, receiver : Threads \cup {NULL}, snd_cnt : Int, size : Nat,
            buffer : Seq(Values \cup {NULL}), ready : BOOLEAN, cgroup : Groups \cup {NULL}]
Group == [live : BOOLEAN, owner : Threads \cup {NULL}, blocked : BOOLEAN]
\* Where a thread can be: in client code or inside an API function.
Places == {"client", "lwt_snd", "lwt_snd_chan", "lwt_die", "lwt_rcv", "lwt_rcv_chan",
              "lwt_join", "lwt_join_yield", "lwt_cgrp_wait"}

TypeOK ==
  /\ sched \in Sched
  /\ thd \in [Threads -> ThreadFields]
  /\ chan \in [Chans -> Channel]
  /\ grp \in [Groups -> Group]
  /\ chl_list \in [Groups -> Seq(Chans)]
  /\ pc \in [Threads -> Places]
  /\ arg \in [Threads -> Threads \cup Groups \cup {NULL}]
  /\ made \in SUBSET Chans
  /\ event \in [Threads -> Chans \cup {NULL}]
  /\ refs \in [Chans -> [Threads -> Int]]
  /\ joined \in SUBSET Threads
  /\ delivered \in (Chans \cup {NULL}) \X (Values \cup {NULL})

Init ==
  /\ sched = SchedInit
  /\ thd = [t \in Threads |-> [parent |-> NULL, nojoin |-> FALSE, message_data |-> NULL,
                               chl |-> NULL, now_rcving |-> NULL]]
  /\ chan = [c \in Chans |-> [live |-> FALSE, receiver |-> NULL, snd_cnt |-> 0, size |-> 0,
                              buffer |-> << >>, ready |-> FALSE, cgroup |-> NULL]]
  /\ grp = [g \in Groups |-> [live |-> FALSE, owner |-> NULL, blocked |-> FALSE]]
  /\ chl_list = [g \in Groups |-> << >>]
  /\ pc = [t \in Threads |-> "client"]
  /\ arg = [t \in Threads |-> NULL]
  /\ made = {}
  /\ event = [t \in Threads |-> NULL]
  /\ refs = [c \in Chans |-> [t \in Threads |-> 0]]
  /\ joined = {}
  /\ delivered = << NULL, NULL >>

-----------------------------------------------------------------------------
(* What is pending on a channel, from the oldest message to the newest: the *)
(* one handed to a receiver that has not run since, the buffer, and those   *)
(* of the blocked senders.                                                  *)

InRcv(t) == pc[t] \in {"lwt_rcv", "lwt_rcv_chan", "lwt_join"}
AsleepOn(t, c) ==
  sched.state[t] = "LWT_BLOCKED" /\ InRcv(t) /\ thd[t].now_rcving = c
HandedTo(t, c) ==
  IsRunnable(sched, t) /\ InRcv(t) /\ thd[t].now_rcving = c

SendersData(c) ==
  [i \in 1 .. Len(sched.queue[c]) |-> thd[sched.queue[c][i]].message_data]
Handed(c) ==
  LET r == chan[c].receiver
  IN  IF r # NULL /\ HandedTo(r, c) THEN << thd[r].message_data >> ELSE << >>
Pending(c) == Handed(c) \o chan[c].buffer \o SendersData(c)

InFlight(x) == \E c \in Chans : chan[c].live /\ \E i \in DOMAIN Pending(c) : Pending(c)[i] = x

-----------------------------------------------------------------------------
(* The client discipline: who may call what.  The code checks none of it.   *)

Client(op) == op \in Ops /\ me # NULL /\ pc[me] = "client"

Knows(t, c) == c \in made /\ (chan[c].receiver = t \/ refs[c][t] > 0)
MaySnd(c) == c \in made /\ refs[c][me] > 0
MayPass(x) == Knows(me, x) /\ ~InFlight(x) /\ chan[x].snd_cnt < MaxRefs

\* A channel is received from by its receiver only.
MayRcv(c) == c \in made /\ chan[c].receiver = me

\* A group is its owner's, and holds channels the owner receives from.
MayGroup(g) == grp[g].live /\ grp[g].owner = me
MayAdd(g, c) == MayGroup(g) /\ c \in made /\ chan[c].receiver = me

\* Nobody can send to a thread that waits on groups on the channel it blocked
\* on last, in lwt_rcv or lwt_join: now_rcving still names that channel.
Addressed(c) == c \in made \/ \E t \in Threads : thd[t].chl = c /\ t \notin joined
MayWait(g) ==
  /\ MayGroup(g)
  /\ \/ thd[me].now_rcving = NULL
     \/ ~Addressed(thd[me].now_rcving)
     \/ "wait_after_rcv" \in Careless

\* A receiver leaves a channel after taking it out of its group and taking
\* what is in it; nobody drops the last reference to a channel on its way to
\* another thread.
MayDeref(c) ==
  /\ Knows(me, c)
  /\ chan[c].receiver = me => /\ chan[c].cgroup = NULL
                              /\ chan[c].buffer = << >> \/ "leave_data" \in Careless
  /\ \/ ~InFlight(c)
     \/ chan[c].receiver = me /\ chan[c].snd_cnt > 0
     \/ chan[c].receiver \notin {me, NULL}
     \/ "deref_in_flight" \in Careless

MayJoin(t) == sched.state[t] # "UNUSED" /\ t # me /\ t \notin joined

-----------------------------------------------------------------------------
(* Sending: lwt_snd, and what lwt_snd_chan and lwt_die do after it.         *)

AfterSnd(k, s) ==
  CASE k = "lwt_snd" -> s
    [] k = "lwt_snd_chan" -> lwt_yield_null(s)
    [] k = "lwt_die" -> SchedDead(s)

\* Fault: the receiver may be blocked in a lwt_rcv on another channel.
ReceiverWaits_AnyChannel(c) ==
  LET r == chan[c].receiver
  IN  sched.state[r] = "LWT_BLOCKED" /\ sched.block_for[r] = "BLOCKED_RECEIVING"

\* Fault: the two values of enum block_status are mixed up.
ReceiverWaits_Swapped(c) ==
  LET r == chan[c].receiver
  IN  /\ sched.state[r] = "LWT_BLOCKED"
      /\ sched.block_for[r] = "BLOCKED_SENDING"
      /\ thd[r].now_rcving = c

\* The receiver sleeps in lwt_rcv on c: the message goes into its hands.
ReceiverWaits(c) ==
  LET r == chan[c].receiver
  IN  /\ sched.state[r] = "LWT_BLOCKED"
      /\ sched.block_for[r] = "BLOCKED_RECEIVING"
      /\ thd[r].now_rcving = c

\* Fault: the buffer takes one message more than its size.
BufferFull_Late(c) == Len(chan[c].buffer) > chan[c].size

BufferFull(c) == Len(chan[c].buffer) = chan[c].size

\* Fault: the owner of the group is not resumed.
WakeOwner_Not(s, c) == s

\* A waiting group owner is resumed; cgrp->blocked stays set until it runs.
WakeOwner(s, c) ==
  LET g == chan[c].cgroup
  IN  IF g # NULL /\ grp[g].blocked THEN resume_thread(s, grp[g].owner) ELSE s

SndReturns(s, k) ==
  /\ sched' = AfterSnd(k, s)
  /\ pc' = [pc EXCEPT ![me] = "client"]

SndNoReceiver(s, th, c, k) ==
  /\ chan[c].receiver = NULL
  /\ SndReturns(s, k)
  /\ thd' = th
  /\ UNCHANGED chan

SndHandOff(s, th, c, v, k) ==
  /\ chan[c].receiver # NULL
  /\ ReceiverWaits(c)
  /\ SndReturns(resume_thread(s, chan[c].receiver), k)
  /\ thd' = [th EXCEPT ![chan[c].receiver].message_data = v]
  /\ UNCHANGED chan

SndBuffer(s, th, c, v, k) ==
  /\ chan[c].receiver # NULL
  /\ ~ReceiverWaits(c)
  /\ ~BufferFull(c)
  /\ chan' = [chan EXCEPT ![c].ready = TRUE, ![c].buffer = Append(@, v)]
  /\ SndReturns(WakeOwner(s, c), k)
  /\ thd' = th

SndBlock(s, th, c, v, k) ==
  /\ chan[c].receiver # NULL
  /\ ~ReceiverWaits(c)
  /\ BufferFull(c)
  /\ chan' = [chan EXCEPT ![c].ready = TRUE]
  /\ sched' = block_thread(WakeOwner(s, c), "BLOCKED_SENDING", c)
  /\ thd' = [th EXCEPT ![me].message_data = v]
  /\ pc' = [pc EXCEPT ![me] = k]

\* lwt_snd(c, v) called in state s, th by the function k.
Snd(s, th, c, v, k) ==
  /\ \/ SndNoReceiver(s, th, c, k)
     \/ SndHandOff(s, th, c, v, k)
     \/ SndBuffer(s, th, c, v, k)
     \/ SndBlock(s, th, c, v, k)
  /\ UNCHANGED << grp, chl_list, arg, clientVars >>

lwt_snd(c, v) == Client("lwt_snd") /\ MaySnd(c) /\ Snd(sched, thd, c, v, "lwt_snd")

lwt_snd_chan(c, x) ==
  /\ Client("lwt_snd_chan") /\ MaySnd(c) /\ MayPass(x)
  /\ Snd(sched, thd, c, x, "lwt_snd_chan")

\* The last word goes through the thread's own channel.  The main thread has
\* no stack of the library's to recycle and does not call lwt_die.
lwt_die(v) ==
  /\ Client("lwt_die") /\ me # MainThread
  /\ Snd(SchedDying(sched), [thd EXCEPT ![me].message_data = v], thd[me].chl, v, "lwt_die")

\* A sender that was blocked runs again.
SndResumes ==
  /\ me # NULL /\ pc[me] \in {"lwt_snd", "lwt_snd_chan", "lwt_die"}
  /\ SndReturns(sched, pc[me])
  /\ UNCHANGED << thd, chan, grp, chl_list, arg, clientVars >>

-----------------------------------------------------------------------------
(* Receiving: lwt_rcv, and what lwt_rcv_chan and lwt_join do after it.      *)

\* lwt_rcv on c returns v to the function k; x is the thread k = lwt_join
\* waits for.  s and ch are the scheduler and the channels as lwt_rcv left them.
RcvReturns(c, v, k, x, s, ch) ==
  /\ delivered' = << c, v >>
  /\ IF k = "lwt_rcv_chan" /\ v \in Chans
       THEN /\ chan' = [ch EXCEPT ![v].snd_cnt = @ + 1]
            /\ refs' = [refs EXCEPT ![v][me] = @ + 1]
       ELSE chan' = ch /\ UNCHANGED refs
  /\ sched' = IF k = "lwt_join" THEN lwt_yield_to(s, x) ELSE s
  /\ pc' = [pc EXCEPT ![me] = IF k = "lwt_join" THEN "lwt_join_yield" ELSE "client"]

\* Fault: the blocked sender is resumed, its message not taken.
Refilled_Not(c) == Tail(chan[c].buffer)

\* The buffer without its first message, and with that of the first blocked
\* sender in the place it leaves.
Refilled(c) ==
  LET left == Tail(chan[c].buffer)
      senders == sched.queue[c]
  IN  IF senders = << >> THEN left ELSE Append(left, thd[Head(senders)].message_data)

\* From the buffer.
RcvBuffer(c, k, x) ==
  LET senders == sched.queue[c]
  IN  /\ chan[c].buffer # << >>
      /\ RcvReturns(c, Head(chan[c].buffer), k, x,
           IF senders = << >> THEN sched ELSE resume_thread(sched, Head(senders)),
           [chan EXCEPT ![c].buffer = Refilled(c), ![c].ready = Refilled(c) # << >>])
      /\ UNCHANGED thd

\* Fault: the queue is looked at before the sender has left it.
SendersLeft_Before(c) == sched.queue[c] # << >>

\* ready once the first blocked sender has been resumed.
SendersLeft(c) == Tail(sched.queue[c]) # << >>

\* From the first blocked sender.
RcvSender(c, k, x) ==
  LET senders == sched.queue[c]
  IN  /\ chan[c].buffer = << >> /\ senders # << >>
      /\ RcvReturns(c, thd[Head(senders)].message_data, k, x,
           resume_thread(sched, Head(senders)),
           [chan EXCEPT ![c].ready = SendersLeft(c)])
      /\ UNCHANGED thd

RcvBlock(c, k) ==
  /\ chan[c].buffer = << >> /\ sched.queue[c] = << >>
  /\ thd' = [thd EXCEPT ![me].now_rcving = c]
  /\ sched' = block_thread(sched, "BLOCKED_RECEIVING", c)
  /\ pc' = [pc EXCEPT ![me] = k]
  /\ UNCHANGED << chan, refs, delivered >>

Rcv(c, k, x) ==
  /\ RcvBuffer(c, k, x) \/ RcvSender(c, k, x) \/ RcvBlock(c, k)
  /\ arg' = [arg EXCEPT ![me] = x]
  /\ event' = [event EXCEPT ![me] = IF @ = c THEN NULL ELSE @]
  /\ UNCHANGED << grp, chl_list, made >>

lwt_rcv(c) ==
  Client("lwt_rcv") /\ MayRcv(c) /\ Rcv(c, "lwt_rcv", NULL) /\ UNCHANGED joined

lwt_rcv_chan(c) ==
  Client("lwt_rcv_chan") /\ MayRcv(c) /\ Rcv(c, "lwt_rcv_chan", NULL) /\ UNCHANGED joined

\* lwt_join refuses a thread that is not a child of the caller, or that was
\* created with LWT_NOJOIN.
lwt_join(t) ==
  /\ Client("lwt_join") /\ MayJoin(t)
  /\ \/ /\ thd[t].parent # me \/ thd[t].nojoin
        /\ UNCHANGED vars
     \/ /\ thd[t].parent = me /\ ~thd[t].nojoin
        /\ Rcv(thd[t].chl, "lwt_join", t)
        /\ joined' = joined \cup {t}

\* A receiver that was blocked runs again and takes its message_data.
RcvResumes ==
  /\ me # NULL /\ InRcv(me)
  /\ RcvReturns(thd[me].now_rcving, thd[me].message_data, pc[me], arg[me], sched, chan)
  /\ UNCHANGED << thd, grp, chl_list, arg, made, event, joined >>

\* lwt_join returns: the yield to the child that ends it is over.
JoinReturns ==
  /\ me # NULL /\ pc[me] = "lwt_join_yield"
  /\ pc' = [pc EXCEPT ![me] = "client"]
  /\ UNCHANGED << sched, thd, chan, grp, chl_list, arg, clientVars >>

-----------------------------------------------------------------------------
(* Threads and channels.                                                    *)

\* Fault: one place fewer than asked for.
NewChan_Short(c, size) ==
  [chan[c] EXCEPT !.live = TRUE, !.receiver = me, !.snd_cnt = 0, !.size = size - 1,
                  !.buffer = << >>]

\* A channel in the block c.  __init_chan does not set ready and cgroup: they
\* are what the block held (0 in fresh pages).
NewChan(c, size) ==
  [chan[c] EXCEPT !.live = TRUE, !.receiver = me, !.snd_cnt = 0, !.size = size,
                  !.buffer = << >>]

lwt_chan(c, size) ==
  /\ Client("lwt_chan") /\ ~chan[c].live
  /\ chan' = [chan EXCEPT ![c] = NewChan(c, size)]
  /\ sched' = [sched EXCEPT !.queue = list_head_init(@, c)]
  /\ made' = made \cup {c}
  /\ UNCHANGED << thd, grp, chl_list, pc, arg, event, refs, joined, delivered >>

\* The block for the next thread: the first of the recycle queue or new memory.
Allocates(t) ==
  LET recycled == sched.queue["recycle_queue"]
  IN  IF recycled # << >> THEN t = Head(recycled) ELSE sched.state[t] = "UNUSED"

\* lwt_create makes thread t with its channel x.  For lwt_create_chan, given is
\* the channel t becomes a sender of (no channel: NULL).
Create(t, x, nojoin, given) ==
  /\ Allocates(t) /\ ~chan[x].live
  /\ sched' = [SchedCreate(sched, t) EXCEPT !.queue = list_head_init(@, x)]
  /\ thd' = [thd EXCEPT ![t] = [@ EXCEPT !.parent = me, !.nojoin = nojoin,
                                         !.message_data = NULL, !.chl = x]]
  /\ chan' = [c \in Chans |->
                IF c = x THEN [NewChan(c, 0) EXCEPT !.snd_cnt = 1]
                ELSE IF c = given THEN [chan[c] EXCEPT !.snd_cnt = @ + 1] ELSE chan[c]]
  /\ refs' = [c \in Chans |-> [refs[c] EXCEPT ![t] = IF c = given THEN 1 ELSE 0]]
  /\ event' = [event EXCEPT ![t] = NULL]
  /\ pc' = [pc EXCEPT ![t] = "client"]
  /\ arg' = [arg EXCEPT ![t] = NULL]
  /\ joined' = joined \ {t}
  /\ UNCHANGED << grp, chl_list, made, delivered >>

lwt_create(t, x, nojoin) ==
  /\ Client("lwt_create") /\ (nojoin => "LWT_NOJOIN" \in Ops)
  /\ Create(t, x, nojoin, NULL)

lwt_create_chan(t, x, c) ==
  /\ Client("lwt_create_chan") /\ Knows(me, c) /\ chan[c].snd_cnt < MaxRefs
  /\ Create(t, x, FALSE, c)

\* The receiver gives the channel up, or a sender one reference; the block is
\* freed when neither is left.
Dereferenced(c) ==
  IF chan[c].receiver = me
    THEN [chan[c] EXCEPT !.receiver = NULL]
    ELSE [chan[c] EXCEPT !.snd_cnt = @ - 1]

\* Fault: freed when either side is gone.
Freed_Early(ch) ==
  IF ch.snd_cnt = 0 \/ ch.receiver = NULL THEN [ch EXCEPT !.live = FALSE] ELSE ch

Freed(ch) == IF ch.snd_cnt = 0 /\ ch.receiver = NULL THEN [ch EXCEPT !.live = FALSE] ELSE ch

lwt_chan_deref(c) ==
  /\ Client("lwt_chan_deref") /\ MayDeref(c)
  /\ chan' = [chan EXCEPT ![c] = Freed(Dereferenced(c))]
  /\ refs' = [refs EXCEPT ![c][me] = IF chan[c].receiver = me THEN @ ELSE @ - 1]
  /\ made' = IF chan'[c].live THEN made ELSE made \ {c}
  /\ UNCHANGED << sched, thd, grp, chl_list, pc, arg, event, joined, delivered >>

lwt_yield(t) ==
  /\ Client("lwt_yield")
  /\ t # NULL => sched.state[t] # "UNUSED"
  /\ sched' = IF t = NULL THEN lwt_yield_null(sched) ELSE lwt_yield_to(sched, t)
  /\ UNCHANGED << thd, chan, grp, chl_list, pc, arg, clientVars >>

-----------------------------------------------------------------------------
(* Channel groups.                                                          *)

lwt_cgrp(g) ==
  /\ Client("lwt_cgrp") /\ ~grp[g].live
  /\ grp' = [grp EXCEPT ![g] = [live |-> TRUE, owner |-> me, blocked |-> FALSE]]
  /\ chl_list' = list_head_init(chl_list, g)
  /\ UNCHANGED << sched, thd, chan, pc, arg, clientVars >>

\* Fault: the channel may be in a group.
lwt_cgrp_add_Unchecked(g, c) ==
  /\ Client("lwt_cgrp_add") /\ MayAdd(g, c)
  /\ chl_list' = list_head_append(chl_list, g, c)
  /\ chan' = [chan EXCEPT ![c].cgroup = g]
  /\ UNCHANGED << sched, thd, grp, pc, arg, clientVars >>

\* Fails (-1) on a channel that is in a group.
lwt_cgrp_add(g, c) ==
  /\ Client("lwt_cgrp_add") /\ MayAdd(g, c)
  /\ IF chan[c].cgroup # NULL
       THEN UNCHANGED vars
       ELSE /\ chl_list' = list_head_append(chl_list, g, c)
            /\ chan' = [chan EXCEPT ![c].cgroup = g]
            /\ UNCHANGED << sched, thd, grp, pc, arg, clientVars >>

\* Fails on a channel with an event (1), then on one of another group (-1).
lwt_cgrp_rem(g, c) ==
  /\ Client("lwt_cgrp_rem") /\ MayGroup(g) /\ Knows(me, c)
  /\ IF chan[c].ready \/ chan[c].cgroup # g
       THEN UNCHANGED vars
       ELSE /\ chl_list' = list_rem(chl_list, c)
            /\ chan' = [chan EXCEPT ![c].cgroup = NULL]
            /\ UNCHANGED << sched, thd, grp, pc, arg, clientVars >>

\* The first foreach returns -1 on its first channel, with an event or not.
lwt_cgrp_free(g) ==
  /\ Client("lwt_cgrp_free") /\ MayGroup(g)
  /\ IF chl_list[g] # << >>
       THEN UNCHANGED vars
       ELSE /\ grp' = [grp EXCEPT ![g].live = FALSE]
            /\ UNCHANGED << sched, thd, chan, chl_list, pc, arg, clientVars >>

\* Fault: the channel itself is not looked at.
FirstReady_Unchecked(g, i) == \A j \in 1 .. i - 1 : ~chan[chl_list[g][j]].ready

\* The i-th channel of the group is the first with an event.
FirstReady(g, i) ==
  /\ chan[chl_list[g][i]].ready
  /\ \A j \in 1 .. i - 1 : ~chan[chl_list[g][j]].ready

\* Fault: blocked is not reset.
WaitReturns_StillBlocked(g) ==
  \E i \in DOMAIN chl_list[g] :
     /\ FirstReady(g, i)
     /\ event' = [event EXCEPT ![me] = chl_list[g][i]]
     /\ pc' = [pc EXCEPT ![me] = "client"]
     /\ UNCHANGED << sched, grp, arg >>

WaitReturns(g) ==
  \E i \in DOMAIN chl_list[g] :
     /\ FirstReady(g, i)
     /\ grp' = [grp EXCEPT ![g].blocked = FALSE]
     /\ event' = [event EXCEPT ![me] = chl_list[g][i]]
     /\ pc' = [pc EXCEPT ![me] = "client"]
     /\ UNCHANGED << sched, arg >>

WaitBlocks(g) ==
  /\ \A i \in DOMAIN chl_list[g] : ~chan[chl_list[g][i]].ready
  /\ grp' = [grp EXCEPT ![g].blocked = TRUE]
  /\ sched' = block_thread(sched, "BLOCKED_RECEIVING", NULL)
  /\ pc' = [pc EXCEPT ![me] = "lwt_cgrp_wait"]
  /\ arg' = [arg EXCEPT ![me] = g]
  /\ UNCHANGED event

\* The loop of lwt_cgrp_wait: from its top to a return or to the next switch.
WaitLoop(g) ==
  /\ WaitReturns(g) \/ WaitBlocks(g)
  /\ UNCHANGED << thd, chan, chl_list, made, refs, joined, delivered >>

lwt_cgrp_wait(g) ==
  /\ Client("lwt_cgrp_wait") /\ MayWait(g)
  /\ IF chl_list[g] = << >> THEN UNCHANGED vars ELSE WaitLoop(g)

WaitResumes == me # NULL /\ pc[me] = "lwt_cgrp_wait" /\ WaitLoop(arg[me])

-----------------------------------------------------------------------------
ThreadStep ==
  \/ \E t \in Threads, x \in Chans, nojoin \in BOOLEAN : lwt_create(t, x, nojoin)
  \/ \E t \in Threads, x, c \in Chans : lwt_create_chan(t, x, c)
  \/ \E t \in Threads \cup {NULL} : lwt_yield(t)
  \/ \E t \in Threads : lwt_join(t)
  \/ \E v \in Data : lwt_die(v)
  \/ JoinReturns

ChanStep ==
  \/ \E c \in Chans, size \in Sizes : lwt_chan(c, size)
  \/ \E c \in Chans : lwt_chan_deref(c)
  \/ \E c \in Chans, v \in Data : lwt_snd(c, v)
  \/ \E c, x \in Chans : lwt_snd_chan(c, x)
  \/ \E c \in Chans : lwt_rcv(c)
  \/ \E c \in Chans : lwt_rcv_chan(c)
  \/ SndResumes
  \/ RcvResumes

GroupStep ==
  \/ \E g \in Groups : lwt_cgrp(g)
  \/ \E g \in Groups, c \in Chans : lwt_cgrp_add(g, c)
  \/ \E g \in Groups, c \in Chans : lwt_cgrp_rem(g, c)
  \/ \E g \in Groups : lwt_cgrp_free(g)
  \/ \E g \in Groups : lwt_cgrp_wait(g)
  \/ WaitResumes

Next == ThreadStep \/ ChanStep \/ GroupStep

Spec == Init /\ [][Next]_vars
=============================================================================
