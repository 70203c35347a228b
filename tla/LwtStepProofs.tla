--------------------------- MODULE LwtStepProofs ---------------------------
(***************************************************************************)
(* What each call does to each field, without the order of the run queue   *)
(* and the EXCEPTs: the shapes of the steps of Lwt.  From them follows     *)
(* what holds whatever rules of the discipline the clients break: no       *)
(* message and no event goes unseen; and that the counters of lwt_info     *)
(* are exact as long as nobody waits on a group.                           *)
(***************************************************************************)
EXTENDS LwtProofs, LwtInv

BaseInv == IndInv /\ GroupsInv /\ ChansInv

-----------------------------------------------------------------------------
(* The scheduler under the calls.                                           *)

\* From k to m the threads of W can run, the others are as before, and no
\* sender queue changes.
Woke(k, m, W) ==
  /\ \A c \in Chans : m.queue[c] = k.queue[c]
  /\ \A u \in Threads : m.block_for[u] = k.block_for[u]
  /\ \A u \in Threads : IF u \in W THEN IsRunnable(m, u) ELSE Stands(k, m, u)

\* No thread is forgotten on the way from k to m.
Completes(k, m) ==
  /\ NoneMissing(k) => NoneMissing(m)
  /\ Busy(k) /\ k.current_thread # NULL => Busy(m)

LEMMA WokeTransitive ==
  ASSUME NEW k, NEW l, NEW m, NEW W, Woke(k, l, W), Woke(l, m, {})
  PROVE  Woke(k, m, W)
<1>1. \A u \in Threads : IF u \in W THEN IsRunnable(m, u) ELSE Stands(k, m, u)
  BY DEF Woke, Stands, IsRunnable
<1> QED
  BY <1>1 DEF Woke

LEMMA ReorderedWoke ==
  ASSUME NEW k, NEW m, Reordered(k, m)
  PROVE  Woke(k, m, {})
  BY DEF Reordered, Woke

LEMMA YieldNullWoke ==
  ASSUME NEW k \in Sched, ListsSound(k), k.current_thread \in Threads
  PROVE  Woke(k, lwt_yield_null(k), {}) /\ Completes(k, lwt_yield_null(k))
<1>1. Reordered(k, lwt_yield_null(k)) /\ Busy(lwt_yield_null(k))
  BY YieldNullView DEF ListsSound
<1> QED
  BY <1>1, ReorderedWoke, ReorderedComplete DEF Completes

LEMMA YieldToWoke ==
  ASSUME NEW k \in Sched, ListsSound(k), k.current_thread # NULL, NEW t \in Threads
  PROVE  Woke(k, lwt_yield_to(k, t), {}) /\ Completes(k, lwt_yield_to(k, t))
<1>1. Busy(k)
  BY DEF Busy
<1>2. Reordered(k, lwt_yield_to(k, t)) /\ Busy(lwt_yield_to(k, t))
  BY <1>1, YieldToView
<1> QED
  BY <1>2, ReorderedWoke, ReorderedComplete DEF Completes

\* Resuming a thread that is on no sender queue.
LEMMA ResumeWoke ==
  ASSUME NEW k \in Sched, ListsSound(k), NEW t \in Threads,
         \A c \in Chans : ~OnList(k.queue, c, t)
  PROVE  Woke(k, resume_thread(k, t), {t}) /\ Completes(k, resume_thread(k, t))
<1> DEFINE m == resume_thread(k, t)
<1>1. Resumed(k, m, t) /\ Completes(k, m)
  BY ResumeView DEF Completes
<1> HIDE DEF m
<1>2. \A c \in Chans : Unlinked(k.queue[c], t) = k.queue[c]
  BY UnlinkedAbsent DEF OnList, In
<1>3. Woke(k, m, {t})
  BY <1>1, <1>2 DEF Resumed, Woke, Stands, IsRunnable
<1> QED
  BY <1>1, <1>3 DEF m

\* The threads lwt_snd on c resumes besides a receiver.
Woken(c) ==
  LET g == chan[c].cgroup IN IF g # NULL /\ grp[g].blocked THEN {grp[g].owner} ELSE {}

LEMMA WakeOwnerWoke ==
  ASSUME BaseInv, me # NULL, pc[me] # "lwt_cgrp_wait", NEW c \in Chans,
         NEW s \in Sched, ListsSound(s), s.current_thread = me, s.queue = sched.queue
  PROVE  Woke(s, WakeOwner(s, c), Woken(c)) /\ Completes(s, WakeOwner(s, c))
<1> DEFINE g == chan[c].cgroup
<1>1. CASE g # NULL /\ grp[g].blocked
  <2>1. g \in Groups
    BY <1>1, ChannelOf DEF IndInv, BaseInv
  <2>2. PICK t \in Threads : t = grp[g].owner /\ pc[t] = "lwt_cgrp_wait"
    BY <1>1, <2>1 DEF IndInv, BlockedOwnersWait, BaseInv
  <2>3. \A d \in Chans : ~OnList(s.queue, d, t)
    BY <2>2 DEF BaseInv, ChansInv, SendersHold, Sending
  <2>4. WakeOwner(s, c) = resume_thread(s, t) /\ Woken(c) = {t}
    BY <1>1, <2>2 DEF WakeOwner, Woken
  <2> QED
    BY <2>3, <2>4, ResumeWoke
<1>2. CASE ~(g # NULL /\ grp[g].blocked)
  <2>1. WakeOwner(s, c) = s /\ Woken(c) = {}
    BY <1>2 DEF WakeOwner, Woken
  <2> QED
    BY <2>1, ReorderedReflexive, ReorderedWoke DEF Completes
<1> QED
  BY <1>1, <1>2

\* The end of a send: t is the current thread.
Ended(k, m, t, call) ==
  /\ \A c \in Chans : m.queue[c] = k.queue[c]
  /\ \A u \in Threads : m.block_for[u] = k.block_for[u]
  /\ \A u \in Threads \ {t} : Stands(k, m, u)
  /\ IF call = "lwt_die" THEN m.state[t] = "LWT_ZOMBIES" ELSE IsRunnable(m, t)

LEMMA AfterSndEnds ==
  ASSUME NEW s \in Sched, ListsSound(s), NEW t \in Threads, t = s.current_thread,
         NEW call \in SndCalls
  PROVE  Ended(s, AfterSnd(call, s), t, call) /\ Completes(s, AfterSnd(call, s))
<1>0. IsRunnable(s, t) /\ t # NULL
  BY SchedAssumption DEF ListsSound, CurrentRuns, IsRunnable
<1>1. CASE call = "lwt_snd"
  <2>1. AfterSnd(call, s) = s
    BY <1>1 DEF AfterSnd
  <2> QED
    BY <1>0, <1>1, <2>1 DEF Ended, Completes, Stands
<1>2. CASE call = "lwt_snd_chan"
  <2>1. AfterSnd(call, s) = lwt_yield_null(s)
    BY <1>2 DEF AfterSnd
  <2>2. Woke(s, lwt_yield_null(s), {}) /\ Completes(s, lwt_yield_null(s))
    BY YieldNullWoke
  <2> QED
    BY <1>0, <1>2, <2>1, <2>2 DEF Ended, Woke, Stands, IsRunnable
<1>3. CASE call = "lwt_die"
  <2>1. AfterSnd(call, s) = SchedDead(s)
    BY <1>3 DEF AfterSnd
  <2>2. Buried(s, SchedDead(s), t) /\ Completes(s, SchedDead(s))
    BY DeadView DEF Completes
  <2> QED
    BY <1>3, <2>1, <2>2 DEF Ended, Buried
<1> QED
  BY <1>1, <1>2, <1>3 DEF SndCalls

-----------------------------------------------------------------------------
(* What a step leaves alone.                                                *)

SameOwners ==
  /\ made' = made
  /\ \A u \in Threads : thd'[u].chl = thd[u].chl /\ thd'[u].parent = thd[u].parent
  /\ \A c \in Chans : /\ chan'[c].live = chan[c].live /\ chan'[c].receiver = chan[c].receiver
                      /\ chan'[c].size = chan[c].size
SameMembers ==
  UNCHANGED << grp, chl_list >> /\ \A c \in Chans : chan'[c].cgroup = chan[c].cgroup
SameRefs == refs' = refs /\ \A c \in Chans : chan'[c].snd_cnt = chan[c].snd_cnt
SameContents(C) ==
  \A c \in Chans \ C : chan'[c].buffer = chan[c].buffer /\ chan'[c].ready = chan[c].ready
SameQueues(C) == \A c \in Chans \ C : sched'.queue[c] = sched.queue[c]
SameData(W) == \A u \in Threads \ W : thd'[u].message_data = thd[u].message_data
SameRcving(W) == \A u \in Threads \ W : thd'[u].now_rcving = thd[u].now_rcving
SameCalls == \A u \in Threads \ {me} : pc'[u] = pc[u] /\ arg'[u] = arg[u]

\* Of the threads other than the current one, those of W can run after the
\* step and the rest are as before.
OthersStand(W) ==
  \A u \in Threads \ {me} :
     /\ sched'.block_for[u] = sched.block_for[u]
     /\ IF u \in W THEN IsRunnable(sched', u) ELSE Stands(sched, sched', u)

-----------------------------------------------------------------------------
(* Sending.                                                                 *)

\* Who sends v on c in the call k.
Sender(c, v, k) ==
  /\ me \in Threads /\ pc[me] = "client" /\ k \in SndCalls
  /\ c \in Chans /\ v \in Values /\ (v \in Chans => v \in made)
  /\ IF k = "lwt_die" THEN me # MainThread /\ c = thd[me].chl ELSE c \in made /\ refs[c][me] > 0

SendFrame ==
  /\ SameOwners /\ SameMembers /\ SameRefs /\ SameRcving({}) /\ SameCalls
  /\ UNCHANGED << event, joined, delivered >>

\* The current thread leaves the call k that sent.
Leaves(k) ==
  /\ pc'[me] = "client"
  /\ IF k = "lwt_die" THEN sched'.state[me] = "LWT_ZOMBIES" ELSE IsRunnable(sched', me)

\* A call ends, or begins and ends, that does nothing but yield or die.
Passes ==
  /\ me \in Threads /\ pc[me] \in SndCalls \cup {"client", "lwt_join_yield"}
  /\ SendFrame /\ SameContents({}) /\ SameQueues({}) /\ SameData({}) /\ OthersStand({})
  /\ Leaves(pc[me])

HandsOff(c, v, k) ==
  LET r == chan[c].receiver
  IN  /\ Sender(c, v, k) /\ SendFrame
      /\ r \in Threads \ {me} /\ ReceiverWaits(c)
      /\ SameContents({}) /\ SameQueues({}) /\ SameData({me, r}) /\ thd'[r].message_data = v
      /\ OthersStand({r}) /\ Leaves(k)

Buffers(c, v, k) ==
  /\ Sender(c, v, k) /\ SendFrame
  /\ chan[c].receiver # NULL /\ ~ReceiverWaits(c) /\ ~BufferFull(c)
  /\ chan'[c].buffer = Append(chan[c].buffer, v) /\ chan'[c].ready
  /\ SameContents({c}) /\ SameQueues({}) /\ SameData({me})
  /\ OthersStand(Woken(c)) /\ Leaves(k)

Blocks(c, v, k) ==
  /\ Sender(c, v, k) /\ SendFrame
  /\ chan[c].receiver # NULL /\ ~ReceiverWaits(c) /\ BufferFull(c)
  /\ chan'[c].buffer = chan[c].buffer /\ chan'[c].ready /\ SameContents({c})
  /\ sched'.queue[c] = Append(sched.queue[c], me) /\ SameQueues({c})
  /\ SameData({me}) /\ thd'[me].message_data = v
  /\ OthersStand(Woken(c)) /\ pc'[me] = k
  /\ sched'.state[me] = "LWT_BLOCKED" /\ sched'.block_for[me] = "BLOCKED_SENDING"

\* A receiver that waits, the current thread aside.
LEMMA DataShape ==
  ASSUME NEW th \in [Threads -> ThreadFields], NEW t \in Threads, NEW v
  PROVE  LET m == [th EXCEPT ![t].message_data = v]
         IN  /\ m[t].message_data = v
             /\ \A u \in Threads \ {t} : m[u].message_data = th[u].message_data
             /\ \A u \in Threads : /\ m[u].chl = th[u].chl /\ m[u].parent = th[u].parent
                                   /\ m[u].now_rcving = th[u].now_rcving
<1> DEFINE r == [th[t] EXCEPT !.message_data = v]
           m == [th EXCEPT ![t] = r]
<1>1. m = [th EXCEPT ![t].message_data = v]
  OBVIOUS
<1>2. /\ r.message_data = v /\ r.chl = th[t].chl /\ r.parent = th[t].parent
      /\ r.now_rcving = th[t].now_rcving
  BY DEF ThreadFields
<1> HIDE DEF r
<1>3. m[t] = r /\ \A u \in Threads \ {t} : m[u] = th[u]
  OBVIOUS
<1> QED
  BY <1>1, <1>2, <1>3

LEMMA ReadyShape ==
  ASSUME NEW ch \in [Chans -> Channel], NEW c \in Chans, NEW b, NEW q
  PROVE  LET m == [ch EXCEPT ![c].ready = b]
             n == [ch EXCEPT ![c].ready = b, ![c].buffer = q]
         IN  /\ m[c].ready = b /\ m[c].buffer = ch[c].buffer
             /\ n[c].ready = b /\ n[c].buffer = q
             /\ \A d \in Chans \ {c} : m[d] = ch[d] /\ n[d] = ch[d]
             /\ \A d \in Chans : /\ m[d].live = ch[d].live /\ n[d].live = ch[d].live
                                 /\ m[d].receiver = ch[d].receiver
                                 /\ n[d].receiver = ch[d].receiver
                                 /\ m[d].size = ch[d].size /\ n[d].size = ch[d].size
                                 /\ m[d].cgroup = ch[d].cgroup /\ n[d].cgroup = ch[d].cgroup
                                 /\ m[d].snd_cnt = ch[d].snd_cnt /\ n[d].snd_cnt = ch[d].snd_cnt
<1> DEFINE r == [ch[c] EXCEPT !.ready = b]
           w == [r EXCEPT !.buffer = q]
           m == [ch EXCEPT ![c] = r]
           n == [ch EXCEPT ![c] = w]
<1>1. /\ m = [ch EXCEPT ![c].ready = b]
      /\ n = [ch EXCEPT ![c].ready = b, ![c].buffer = q]
  OBVIOUS
<1>2. /\ r.ready = b /\ r.buffer = ch[c].buffer /\ r.live = ch[c].live
      /\ r.receiver = ch[c].receiver /\ r.size = ch[c].size /\ r.cgroup = ch[c].cgroup
      /\ r.snd_cnt = ch[c].snd_cnt
  BY DEF Channel
<1>3. /\ w.ready = b /\ w.buffer = q /\ w.live = ch[c].live
      /\ w.receiver = ch[c].receiver /\ w.size = ch[c].size /\ w.cgroup = ch[c].cgroup
      /\ w.snd_cnt = ch[c].snd_cnt
  BY DEF Channel
<1> HIDE DEF r, w
<1>4. m[c] = r /\ n[c] = w /\ \A d \in Chans \ {c} : m[d] = ch[d] /\ n[d] = ch[d]
  OBVIOUS
<1> HIDE DEF m, n
<1> QED
  BY <1>1, <1>2, <1>3, <1>4

\* SndReturns in the state s in which the threads of W have been resumed.
LEMMA ReturnsShape ==
  ASSUME BaseInv, me \in Threads, NEW k \in SndCalls, NEW W,
         NEW s \in Sched, ListsSound(s), s.current_thread = me,
         Woke(sched, s, W), Completes(sched, s), SndReturns(s, k)
  PROVE  /\ SameQueues({}) /\ OthersStand(W) /\ Leaves(k) /\ Completes(sched, sched')
         /\ \A u \in Threads \ {me} : pc'[u] = pc[u]
<1>1. sched' = AfterSnd(k, s) /\ pc' = [pc EXCEPT ![me] = "client"]
  BY DEF SndReturns
<1>2. Ended(s, sched', me, k) /\ Completes(s, sched')
  BY <1>1, AfterSndEnds
<1>3. OthersStand(W)
  BY <1>2 DEF Woke, Ended, OthersStand, Stands, IsRunnable
<1>4. SameQueues({})
  BY <1>2 DEF Woke, Ended, SameQueues
<1>5. me # NULL /\ pc \in [Threads -> Places]
  BY SchedAssumption DEF BaseInv, IndInv, TypeOK
<1>6. pc'[me] = "client" /\ \A u \in Threads \ {me} : pc'[u] = pc[u]
  BY <1>1, <1>5
<1>7. Completes(sched, sched')
  <2>1. sched.current_thread # NULL /\ s.current_thread # NULL
    BY <1>5 DEF me
  <2> QED
    BY <1>2, <2>1 DEF Completes
<1> QED
  BY <1>2, <1>3, <1>4, <1>6, <1>7 DEF Leaves, Ended

\* s and th are the state in which k calls lwt_snd: lwt_die has counted itself
\* and put v into its message_data.
LEMMA SndShape ==
  ASSUME BaseInv, NEW c, NEW v, NEW k, Sender(c, v, k),
         NEW s \in Sched, ListsSound(s), s.current_thread = me, s.queue = sched.queue,
         Woke(sched, s, {}), Completes(sched, s),
         NEW th \in [Threads -> ThreadFields], k # "lwt_die" => th = thd,
         \A u \in Threads : /\ th[u].chl = thd[u].chl /\ th[u].parent = thd[u].parent
                            /\ th[u].now_rcving = thd[u].now_rcving
                            /\ u # me => th[u].message_data = thd[u].message_data,
         Snd(s, th, c, v, k)
  PROVE  /\ \/ chan[c].receiver = NULL /\ Passes
            \/ HandsOff(c, v, k) \/ Buffers(c, v, k) \/ Blocks(c, v, k)
         /\ Completes(sched, sched')
<1>0. /\ me \in Threads /\ pc[me] = "client" /\ k \in SndCalls /\ c \in Chans /\ me # NULL
      /\ pc[me] # "lwt_cgrp_wait" /\ sched.state[me] = "LWT_RUNNING"
  <2>1. me \in Threads /\ pc[me] = "client" /\ k \in SndCalls /\ c \in Chans
    BY DEF Sender
  <2>2. me # NULL
    BY <2>1, SchedAssumption
  <2> QED
    BY <2>1, <2>2, CurrentIsThread DEF BaseInv
<1>1. chan \in [Chans -> Channel] /\ thd \in [Threads -> ThreadFields] /\ pc \in [Threads -> Places]
  BY DEF BaseInv, IndInv, TypeOK
<1>2. UNCHANGED << grp, chl_list, arg, made, event, refs, joined, delivered >>
  BY DEF Snd, clientVars
<1>3. CASE SndNoReceiver(s, th, c, k)
  <2>1. /\ chan[c].receiver = NULL /\ SndReturns(s, k) /\ thd' = th /\ UNCHANGED chan
    BY <1>3 DEF SndNoReceiver
  <2>2. k # "lwt_die"
    <3>1. ASSUME k = "lwt_die"  PROVE FALSE
      <4>1. c = thd[me].chl /\ thd[me].chl # NULL
        BY <1>0, <3>1, SchedAssumption DEF Sender
      <4>2. chan[c].receiver \in Threads
        BY <1>0, <4>1 DEF BaseInv, ChansInv, OwnChannels
      <4> QED
        BY <2>1, <4>2, SchedAssumption
    <3> QED
      BY <3>1
  <2>3. /\ SameQueues({}) /\ OthersStand({}) /\ Leaves(k) /\ Completes(sched, sched')
        /\ \A u \in Threads \ {me} : pc'[u] = pc[u]
    BY <1>0, <2>1, ReturnsShape
  <2>4. SendFrame /\ SameContents({}) /\ SameData({})
    BY <1>2, <2>1, <2>2, <2>3
       DEF SendFrame, SameOwners, SameMembers, SameRefs, SameRcving, SameCalls, SameContents, SameData
  <2>5. Leaves(pc[me])
    BY <1>0, <2>2, <2>3 DEF Leaves
  <2> QED
    BY <1>0, <2>1, <2>3, <2>4, <2>5 DEF Passes
<1>4. CASE SndHandOff(s, th, c, v, k)
  <2> DEFINE r == chan[c].receiver
  <2>1. /\ r # NULL /\ ReceiverWaits(c) /\ SndReturns(resume_thread(s, r), k)
        /\ thd' = [th EXCEPT ![r].message_data = v] /\ UNCHANGED chan
    BY <1>4 DEF SndHandOff
  <2>2. r \in Threads \ {me} /\ sched.state[r] = "LWT_BLOCKED"
    BY <1>0, <2>1, ChannelOf DEF ReceiverWaits, BaseInv, IndInv
  <2>3. /\ sched.block_for[r] = "BLOCKED_RECEIVING" /\ \A d \in Chans : ~OnList(s.queue, d, r)
    BY <2>1, <2>2 DEF ReceiverWaits, BaseInv, IndInv, NobodyMisplaced, ListsSound, Placed
  <2> HIDE DEF r
  <2> DEFINE m == resume_thread(s, r)
  <2>4. Woke(s, m, {r}) /\ Completes(s, m)
    BY <2>2, <2>3, ResumeWoke
  <2>5. m \in Sched /\ ListsSound(m) /\ m.current_thread = me
    <3>1. s.state[r] = "LWT_BLOCKED"
      BY <2>2 DEF Woke, Stands, IsRunnable
    <3> QED
      BY <1>0, <2>2, <3>1, ResumeSound DEF Gone
  <2> HIDE DEF m
  <2>6. Woke(sched, m, {r})
    BY <2>4 DEF Woke, Stands, IsRunnable
  <2>7. Completes(sched, m)
    BY <1>0, <2>4 DEF Completes, me
  <2>8. /\ SameQueues({}) /\ OthersStand({r}) /\ Leaves(k) /\ Completes(sched, sched')
        /\ \A u \in Threads \ {me} : pc'[u] = pc[u]
    BY <1>0, <2>1, <2>5, <2>6, <2>7, ReturnsShape DEF m
  <2>9. /\ thd'[r].message_data = v
        /\ \A u \in Threads \ {r} : thd'[u].message_data = th[u].message_data
        /\ \A u \in Threads : /\ thd'[u].chl = th[u].chl /\ thd'[u].parent = th[u].parent
                              /\ thd'[u].now_rcving = th[u].now_rcving
    BY <2>1, <2>2, DataShape
  <2>10. SendFrame /\ SameContents({}) /\ SameData({me, r})
    BY <1>2, <2>1, <2>8, <2>9
       DEF SendFrame, SameOwners, SameMembers, SameRefs, SameRcving, SameCalls, SameContents, SameData
  <2> QED
    BY <2>1, <2>2, <2>8, <2>9, <2>10 DEF HandsOff, r
<1>5. CASE SndBuffer(s, th, c, v, k)
  <2> DEFINE m == WakeOwner(s, c)
             q == Append(chan[c].buffer, v)
  <2>1. /\ chan[c].receiver # NULL /\ ~ReceiverWaits(c) /\ ~BufferFull(c)
        /\ SndReturns(m, k) /\ thd' = th
        /\ chan' = [chan EXCEPT ![c].ready = TRUE, ![c].buffer = q]
    BY <1>5 DEF SndBuffer
  <2>2. Woke(s, m, Woken(c)) /\ Completes(s, m)
    BY <1>0, WakeOwnerWoke
  <2>3. m \in Sched /\ ListsSound(m) /\ m.current_thread = me
    <3>1. SameThreads(sched, s)
      BY DEF SameThreads, Woke, Stands, IsRunnable, Gone
    <3> QED
      BY <1>0, <3>1, WakeOwnerSound DEF BaseInv
  <2> HIDE DEF m, q
  <2>4. Woke(sched, m, Woken(c))
    BY <2>2 DEF Woke, Stands, IsRunnable
  <2>5. Completes(sched, m)
    BY <1>0, <2>2 DEF Completes, me
  <2>6. /\ SameQueues({}) /\ OthersStand(Woken(c)) /\ Leaves(k) /\ Completes(sched, sched')
        /\ \A u \in Threads \ {me} : pc'[u] = pc[u]
    BY <1>0, <2>1, <2>3, <2>4, <2>5, ReturnsShape
  <2>7. /\ chan'[c].ready = TRUE /\ chan'[c].buffer = q
        /\ \A d \in Chans \ {c} : chan'[d] = chan[d]
        /\ \A d \in Chans : /\ chan'[d].live = chan[d].live /\ chan'[d].receiver = chan[d].receiver
                            /\ chan'[d].size = chan[d].size /\ chan'[d].cgroup = chan[d].cgroup
                            /\ chan'[d].snd_cnt = chan[d].snd_cnt
    BY <1>0, <1>1, <2>1, ReadyShape
  <2>8. SendFrame /\ SameContents({c}) /\ SameData({me})
    BY <1>2, <2>1, <2>6, <2>7
       DEF SendFrame, SameOwners, SameMembers, SameRefs, SameRcving, SameCalls, SameContents, SameData
  <2> QED
    BY <2>1, <2>6, <2>7, <2>8 DEF Buffers, q
<1>6. CASE SndBlock(s, th, c, v, k)
  <2> DEFINE w == WakeOwner(s, c)
             m == block_thread(w, "BLOCKED_SENDING", c)
  <2>1. /\ chan[c].receiver # NULL /\ ~ReceiverWaits(c) /\ BufferFull(c)
        /\ chan' = [chan EXCEPT ![c].ready = TRUE] /\ sched' = m
        /\ thd' = [th EXCEPT ![me].message_data = v] /\ pc' = [pc EXCEPT ![me] = k]
    BY <1>6 DEF SndBlock
  <2>2. Woke(s, w, Woken(c)) /\ Completes(s, w)
    BY <1>0, WakeOwnerWoke
  <2>3. w \in Sched /\ ListsSound(w) /\ w.current_thread = me
    <3>1. SameThreads(sched, s)
      BY DEF SameThreads, Woke, Stands, IsRunnable, Gone
    <3> QED
      BY <1>0, <3>1, WakeOwnerSound DEF BaseInv
  <2> HIDE DEF w
  <2>4. /\ Blocked(w, m, me, "BLOCKED_SENDING", c)
        /\ NoneMissing(w) => NoneMissing(m)
        /\ Busy(m)
    BY <1>0, <2>3, BlockView DEF BlockStatus
  <2> HIDE DEF m
  <2>5. Completes(sched, sched')
    BY <1>0, <2>1, <2>2, <2>4 DEF Completes, me
  <2>6. \A d \in Chans : w.queue[d] = sched.queue[d]
    BY <2>2 DEF Woke
  <2>7. sched'.queue[c] = Append(sched.queue[c], me) /\ SameQueues({c})
    BY <1>0, <2>1, <2>4, <2>6 DEF Blocked, SameQueues
  <2>8. /\ OthersStand(Woken(c))
        /\ sched'.state[me] = "LWT_BLOCKED" /\ sched'.block_for[me] = "BLOCKED_SENDING"
    <3>1. \A u \in Threads \ {me} : sched'.block_for[u] = sched.block_for[u]
      BY <2>1, <2>2, <2>4 DEF Blocked, Woke
    <3>2. \A u \in Threads \ {me} :
            IF u \in Woken(c) THEN IsRunnable(sched', u) ELSE Stands(sched, sched', u)
      BY <2>1, <2>2, <2>4 DEF Blocked, Woke, Stands, IsRunnable
    <3>3. sched'.state[me] = "LWT_BLOCKED" /\ sched'.block_for[me] = "BLOCKED_SENDING"
      BY <1>0, <2>1, <2>4 DEF Blocked
    <3> QED
      BY <3>1, <3>2, <3>3 DEF OthersStand
  <2>9. /\ chan'[c].ready = TRUE /\ chan'[c].buffer = chan[c].buffer
        /\ \A d \in Chans \ {c} : chan'[d] = chan[d]
        /\ \A d \in Chans : /\ chan'[d].live = chan[d].live /\ chan'[d].receiver = chan[d].receiver
                            /\ chan'[d].size = chan[d].size /\ chan'[d].cgroup = chan[d].cgroup
                            /\ chan'[d].snd_cnt = chan[d].snd_cnt
    BY <1>0, <1>1, <2>1, ReadyShape
  <2>10. /\ thd'[me].message_data = v
         /\ \A u \in Threads \ {me} : thd'[u].message_data = th[u].message_data
         /\ \A u \in Threads : /\ thd'[u].chl = th[u].chl /\ thd'[u].parent = th[u].parent
                               /\ thd'[u].now_rcving = th[u].now_rcving
    BY <1>0, <2>1, DataShape
  <2>11. pc'[me] = k /\ \A u \in Threads \ {me} : pc'[u] = pc[u]
    BY <1>0, <1>1, <2>1
  <2>12. SendFrame /\ SameContents({c}) /\ SameData({me})
    BY <1>2, <2>1, <2>9, <2>10, <2>11
       DEF SendFrame, SameOwners, SameMembers, SameRefs, SameRcving, SameCalls, SameContents, SameData
  <2> QED
    BY <2>1, <2>5, <2>7, <2>8, <2>9, <2>10, <2>11, <2>12 DEF Blocks
<1> QED
  BY <1>3, <1>4, <1>5, <1>6 DEF Snd

LEMMA LwtSndShape ==
  ASSUME BaseInv, NEW c \in Chans, NEW v \in Data, lwt_snd(c, v)
  PROVE  /\ Sender(c, v, "lwt_snd")
         /\ \/ chan[c].receiver = NULL /\ Passes
            \/ HandsOff(c, v, "lwt_snd") \/ Buffers(c, v, "lwt_snd") \/ Blocks(c, v, "lwt_snd")
         /\ Completes(sched, sched')
<1>1. me # NULL /\ pc[me] = "client" /\ MaySnd(c) /\ Snd(sched, thd, c, v, "lwt_snd")
  BY DEF lwt_snd, Client
<1>2. Sender(c, v, "lwt_snd")
  BY <1>1, CurrentIsThread, LwtAssumption DEF Sender, SndCalls, Values, MaySnd, BaseInv
<1>3. Woke(sched, sched, {}) /\ Completes(sched, sched)
  BY ReorderedReflexive, ReorderedWoke DEF Completes
<1>4. /\ sched \in Sched /\ ListsSound(sched) /\ sched.current_thread = me
      /\ thd \in [Threads -> ThreadFields]
  BY DEF BaseInv, IndInv, TypeOK, NobodyMisplaced, me
<1> QED
  BY <1>1, <1>2, <1>3, <1>4, SndShape

LEMMA LwtSndChanShape ==
  ASSUME BaseInv, NEW c \in Chans, NEW x \in Chans, lwt_snd_chan(c, x)
  PROVE  /\ \/ Passes \/ HandsOff(c, x, "lwt_snd_chan")
            \/ Buffers(c, x, "lwt_snd_chan") \/ Blocks(c, x, "lwt_snd_chan")
         /\ Completes(sched, sched')
<1>1. /\ me # NULL /\ pc[me] = "client" /\ MaySnd(c) /\ x \in made
      /\ Snd(sched, thd, c, x, "lwt_snd_chan")
  BY DEF lwt_snd_chan, Client, MayPass, Knows
<1>2. Sender(c, x, "lwt_snd_chan")
  BY <1>1, CurrentIsThread DEF Sender, SndCalls, Values, MaySnd, BaseInv
<1>3. Woke(sched, sched, {}) /\ Completes(sched, sched)
  BY ReorderedReflexive, ReorderedWoke DEF Completes
<1>4. /\ sched \in Sched /\ ListsSound(sched) /\ sched.current_thread = me
      /\ thd \in [Threads -> ThreadFields]
  BY DEF BaseInv, IndInv, TypeOK, NobodyMisplaced, me
<1> QED
  BY <1>1, <1>2, <1>3, <1>4, SndShape

LEMMA LwtDieShape ==
  ASSUME BaseInv, NEW v \in Data, lwt_die(v)
  PROVE  /\ \/ Passes
            \/ \E c \in Chans : \/ HandsOff(c, v, "lwt_die") \/ Buffers(c, v, "lwt_die")
                                \/ Blocks(c, v, "lwt_die")
         /\ Completes(sched, sched')
<1> DEFINE s == SchedDying(sched)
           th == [thd EXCEPT ![me].message_data = v]
           c == thd[me].chl
<1>1. /\ me # NULL /\ pc[me] = "client" /\ me # MainThread /\ Snd(s, th, c, v, "lwt_die")
  BY DEF lwt_die, Client
<1>2. /\ sched \in Sched /\ ListsSound(sched) /\ sched.current_thread = me
      /\ thd \in [Threads -> ThreadFields] /\ me \in Threads /\ c \in Chans
  BY <1>1, CurrentIsThread DEF BaseInv, IndInv, TypeOK, NobodyMisplaced, me
<1>3. Sender(c, v, "lwt_die")
  BY <1>1, <1>2, LwtAssumption DEF Sender, SndCalls, Values
<1>4. /\ s \in Sched /\ ListsSound(s) /\ s.current_thread = me /\ s.state = sched.state
      /\ s.queue = sched.queue /\ s.block_for = sched.block_for
  BY <1>2, DyingSound
<1>5. Completes(sched, s)
  BY <1>2, DyingView DEF Completes
<1> HIDE DEF s
<1>6. Woke(sched, s, {})
  BY <1>4 DEF Woke, Stands
<1>7. /\ th \in [Threads -> ThreadFields]
      /\ \A u \in Threads : /\ th[u].chl = thd[u].chl /\ th[u].parent = thd[u].parent
                            /\ th[u].now_rcving = thd[u].now_rcving
                            /\ u # me => th[u].message_data = thd[u].message_data
  <2>1. v \in Values \cup {NULL}
    BY DEF Values
  <2> QED
    BY <1>2, <2>1, DataSet, DataShape
<1> HIDE DEF th
<1>8. /\ Passes \/ HandsOff(c, v, "lwt_die") \/ Buffers(c, v, "lwt_die") \/ Blocks(c, v, "lwt_die")
      /\ Completes(sched, sched')
  BY <1>1, <1>3, <1>4, <1>5, <1>6, <1>7, SndShape
<1> HIDE DEF c
<1> QED
  BY <1>2, <1>8

\* A call that is inside lwt_snd, lwt_snd_chan, lwt_die or lwt_join ends.
LEMMA SndResumesShape ==
  ASSUME BaseInv, SndResumes
  PROVE  Passes /\ Completes(sched, sched')
<1>1. /\ me # NULL /\ pc[me] \in SndCalls /\ SndReturns(sched, pc[me])
      /\ UNCHANGED << thd, chan, grp, chl_list, arg, clientVars >>
  BY DEF SndResumes, SndCalls
<1>2. /\ sched \in Sched /\ ListsSound(sched) /\ sched.current_thread = me /\ me \in Threads
  BY <1>1, CurrentIsThread DEF BaseInv, IndInv, TypeOK, NobodyMisplaced, me
<1>3. Woke(sched, sched, {}) /\ Completes(sched, sched)
  BY ReorderedReflexive, ReorderedWoke DEF Completes
<1>4. /\ SameQueues({}) /\ OthersStand({}) /\ Leaves(pc[me]) /\ Completes(sched, sched')
      /\ \A u \in Threads \ {me} : pc'[u] = pc[u]
  BY <1>1, <1>2, <1>3, ReturnsShape
<1>5. SendFrame /\ SameContents({}) /\ SameData({})
  BY <1>1, <1>4
     DEF SendFrame, SameOwners, SameMembers, SameRefs, SameRcving, SameCalls, SameContents,
         SameData, clientVars
<1> QED
  BY <1>1, <1>2, <1>4, <1>5 DEF Passes

LEMMA YieldShape ==
  ASSUME BaseInv, me # NULL, pc[me] \in {"client", "lwt_join_yield"}, pc'[me] = "client",
         \A u \in Threads \ {me} : pc'[u] = pc[u],
         Woke(sched, sched', {}), Completes(sched, sched'),
         UNCHANGED << thd, chan, grp, chl_list, arg, clientVars >>
  PROVE  Passes
<1>1. me \in Threads /\ IsRunnable(sched, me)
  BY CurrentIsThread DEF BaseInv, IsRunnable
<1>2. SameQueues({}) /\ OthersStand({}) /\ IsRunnable(sched', me)
  BY <1>1 DEF Woke, SameQueues, OthersStand, Stands, IsRunnable
<1>3. SendFrame /\ SameContents({}) /\ SameData({})
  BY DEF SendFrame, SameOwners, SameMembers, SameRefs, SameRcving, SameCalls, SameContents,
         SameData, clientVars
<1> QED
  BY <1>1, <1>2, <1>3 DEF Passes, Leaves

LEMMA JoinReturnsShape ==
  ASSUME BaseInv, JoinReturns
  PROVE  Passes /\ Completes(sched, sched')
<1>1. /\ me # NULL /\ pc[me] = "lwt_join_yield" /\ pc' = [pc EXCEPT ![me] = "client"]
      /\ UNCHANGED << sched, thd, chan, grp, chl_list, arg, clientVars >>
  BY DEF JoinReturns
<1>2. pc'[me] = "client" /\ \A u \in Threads \ {me} : pc'[u] = pc[u]
  BY <1>1, CurrentIsThread DEF BaseInv, IndInv, TypeOK
<1>3. Woke(sched, sched', {}) /\ Completes(sched, sched')
  BY <1>1, ReorderedReflexive, ReorderedWoke DEF Completes
<1> QED
  BY <1>1, <1>2, <1>3, YieldShape

LEMMA LwtYieldShape ==
  ASSUME BaseInv, NEW t \in Threads \cup {NULL}, lwt_yield(t)
  PROVE  Passes /\ Completes(sched, sched')
<1>1. /\ me # NULL /\ pc[me] = "client"
      /\ sched' = IF t = NULL THEN lwt_yield_null(sched) ELSE lwt_yield_to(sched, t)
      /\ UNCHANGED << thd, chan, grp, chl_list, pc, arg, clientVars >>
  BY DEF lwt_yield, Client
<1>2. sched \in Sched /\ ListsSound(sched) /\ sched.current_thread \in Threads
  BY <1>1, CurrentIsThread DEF BaseInv, IndInv, TypeOK, NobodyMisplaced, me
<1>3. Woke(sched, sched', {}) /\ Completes(sched, sched')
  <2>1. CASE t = NULL
    BY <1>1, <1>2, <2>1, YieldNullWoke
  <2>2. CASE t # NULL
    <3>1. t \in Threads /\ sched.current_thread # NULL
      BY <1>2, <2>2, SchedAssumption
    <3> QED
      BY <1>1, <1>2, <2>2, <3>1, YieldToWoke
  <2> QED
    BY <2>1, <2>2
<1> QED
  BY <1>1, <1>3, YieldShape

\* A call that fails at once.
LEMMA UnchangedShape ==
  ASSUME BaseInv, me # NULL, pc[me] = "client", UNCHANGED vars
  PROVE  Passes /\ Completes(sched, sched')
<1>1. UNCHANGED << sched, thd, chan, grp, chl_list, pc, arg, clientVars >>
  BY DEF vars, clientVars
<1>2. Woke(sched, sched', {}) /\ Completes(sched, sched')
  BY <1>1, ReorderedReflexive, ReorderedWoke DEF Completes
<1> QED
  BY <1>1, <1>2, YieldShape

-----------------------------------------------------------------------------
(* Receiving.                                                               *)

\* The references after the call k has received v.
Counts(k, v) ==
  \A d \in Chans :
     LET n == IF k = "lwt_rcv_chan" /\ d = v THEN 1 ELSE 0
     IN  /\ chan'[d].snd_cnt = chan[d].snd_cnt + n
         /\ \A u \in Threads : refs'[d][u] = refs[d][u] + (IF u = me THEN n ELSE 0)

\* Who calls lwt_rcv on c in the call k; x is the thread lwt_join waits for.
Receiver(c, k, x) ==
  /\ me \in Threads /\ pc[me] = "client" /\ c \in Chans /\ chan[c].receiver = me
  /\ IF k = "lwt_join"
       THEN /\ x \in Threads \ {me} /\ x \notin joined /\ c = thd[x].chl
            /\ joined' = joined \cup {x}
       ELSE k \in {"lwt_rcv", "lwt_rcv_chan"} /\ c \in made /\ UNCHANGED joined
  /\ event'[me] = (IF event[me] = c THEN NULL ELSE event[me])
  /\ \A u \in Threads \ {me} : event'[u] = event[u]
  /\ SameOwners /\ SameMembers /\ SameCalls /\ SameData({})

\* lwt_rcv returns v to the call k.
Delivers(c, v, k) ==
  /\ delivered' = << c, v >> /\ Counts(k, v)
  /\ pc'[me] \in {"client", "lwt_join_yield"} /\ IsRunnable(sched', me)

FromBuffer(c, v) ==
  /\ chan[c].buffer # << >> /\ v = Head(chan[c].buffer)
  /\ chan'[c].buffer = Refilled(c) /\ chan'[c].ready = (Refilled(c) # << >>)
FromSender(c, v) ==
  /\ chan[c].buffer = << >> /\ sched.queue[c] # << >>
  /\ v = thd[Head(sched.queue[c])].message_data
  /\ chan'[c].buffer = << >> /\ chan'[c].ready = SendersLeft(c)

\* The first sender, if there is one, is resumed.
Unblocks(c) ==
  IF sched.queue[c] = << >>
    THEN sched'.queue[c] = << >> /\ OthersStand({})
    ELSE sched'.queue[c] = Tail(sched.queue[c]) /\ OthersStand({Head(sched.queue[c])})

Takes(c, v, k, x) ==
  /\ Receiver(c, k, x) /\ Delivers(c, v, k) /\ SameRcving({})
  /\ FromBuffer(c, v) \/ FromSender(c, v)
  /\ SameContents({c}) /\ Unblocks(c) /\ SameQueues({c})

Sleeps(c, k, x) ==
  /\ Receiver(c, k, x) /\ chan[c].buffer = << >> /\ sched.queue[c] = << >>
  /\ SameRefs /\ SameContents({}) /\ SameQueues({}) /\ OthersStand({})
  /\ SameRcving({me}) /\ thd'[me].now_rcving = c
  /\ pc'[me] = k /\ UNCHANGED delivered
  /\ sched'.state[me] = "LWT_BLOCKED" /\ sched'.block_for[me] = "BLOCKED_RECEIVING"

Awakes ==
  /\ me \in Threads /\ InRcv(me)
  /\ SameOwners /\ SameMembers /\ SameCalls /\ SameData({}) /\ SameRcving({})
  /\ SameContents({}) /\ SameQueues({}) /\ OthersStand({}) /\ UNCHANGED << event, joined >>
  /\ Delivers(thd[me].now_rcving, thd[me].message_data, pc[me])

LEMMA CountShape ==
  ASSUME NEW ch \in [Chans -> Channel], NEW c \in Chans
  PROVE  LET m == [ch EXCEPT ![c].snd_cnt = @ + 1]
         IN  /\ m[c].snd_cnt = ch[c].snd_cnt + 1
             /\ \A d \in Chans \ {c} : m[d] = ch[d]
             /\ \A d \in Chans : /\ m[d].live = ch[d].live /\ m[d].receiver = ch[d].receiver
                                 /\ m[d].size = ch[d].size /\ m[d].cgroup = ch[d].cgroup
                                 /\ m[d].buffer = ch[d].buffer /\ m[d].ready = ch[d].ready
<1> DEFINE n == ch[c].snd_cnt + 1
           r == [ch[c] EXCEPT !.snd_cnt = n]
           m == [ch EXCEPT ![c] = r]
<1>1. m = [ch EXCEPT ![c].snd_cnt = @ + 1]
  OBVIOUS
<1>2. n = ch[c].snd_cnt + 1
  OBVIOUS
<1> HIDE DEF n
<1>3. /\ r.snd_cnt = n /\ r.live = ch[c].live /\ r.receiver = ch[c].receiver
      /\ r.size = ch[c].size /\ r.cgroup = ch[c].cgroup
      /\ r.buffer = ch[c].buffer /\ r.ready = ch[c].ready
  BY DEF Channel
<1> HIDE DEF r
<1>4. m[c] = r /\ \A d \in Chans \ {c} : m[d] = ch[d]
  OBVIOUS
<1> HIDE DEF m
<1> QED
  BY <1>1, <1>2, <1>3, <1>4

LEMMA DeliversShape ==
  ASSUME BaseInv, me \in Threads, NEW c, NEW v, NEW k \in RcvCalls,
         NEW x, k = "lwt_join" => x \in Threads,
         NEW s \in Sched, ListsSound(s), s.current_thread = me, IsRunnable(s, me),
         NEW ch \in [Chans -> Channel], \A d \in Chans : ch[d].snd_cnt = chan[d].snd_cnt,
         RcvReturns(c, v, k, x, s, ch)
  PROVE  /\ Delivers(c, v, k)
         /\ \A d \in Chans : /\ chan'[d].live = ch[d].live /\ chan'[d].receiver = ch[d].receiver
                             /\ chan'[d].size = ch[d].size /\ chan'[d].cgroup = ch[d].cgroup
                             /\ chan'[d].buffer = ch[d].buffer /\ chan'[d].ready = ch[d].ready
         /\ \A u \in Threads \ {me} : pc'[u] = pc[u]
         /\ Woke(s, sched', {}) /\ Completes(s, sched')
<1>1. /\ refs \in [Chans -> [Threads -> Int]] /\ pc \in [Threads -> Places]
      /\ chan \in [Chans -> Channel] /\ me # NULL
  BY SchedAssumption DEF BaseInv, IndInv, TypeOK
<1>2. \A d \in Chans : chan[d].snd_cnt \in Int /\ ch[d].snd_cnt \in Int
  BY <1>1 DEF Channel
<1>3. /\ Counts(k, v)
      /\ \A d \in Chans : /\ chan'[d].live = ch[d].live /\ chan'[d].receiver = ch[d].receiver
                          /\ chan'[d].size = ch[d].size /\ chan'[d].cgroup = ch[d].cgroup
                          /\ chan'[d].buffer = ch[d].buffer /\ chan'[d].ready = ch[d].ready
  <2>1. CASE k = "lwt_rcv_chan" /\ v \in Chans
    <3>1. /\ chan' = [ch EXCEPT ![v].snd_cnt = @ + 1]
          /\ refs' = [refs EXCEPT ![v][me] = @ + 1]
      BY <2>1 DEF RcvReturns
    <3>2. /\ chan'[v].snd_cnt = ch[v].snd_cnt + 1
          /\ \A d \in Chans \ {v} : chan'[d] = ch[d]
          /\ \A d \in Chans : /\ chan'[d].live = ch[d].live /\ chan'[d].receiver = ch[d].receiver
                              /\ chan'[d].size = ch[d].size /\ chan'[d].cgroup = ch[d].cgroup
                              /\ chan'[d].buffer = ch[d].buffer /\ chan'[d].ready = ch[d].ready
      BY <2>1, <3>1, CountShape
    <3>3. \A d \in Chans, u \in Threads :
            refs'[d][u] = IF d = v /\ u = me THEN refs[d][u] + 1 ELSE refs[d][u]
      BY <1>1, <2>1, <3>1
    <3>4. Counts(k, v)
      BY <1>1, <1>2, <2>1, <3>2, <3>3 DEF Counts
    <3> QED
      BY <3>2, <3>4
  <2>2. CASE ~(k = "lwt_rcv_chan" /\ v \in Chans)
    <3>1. chan' = ch /\ refs' = refs
      BY <2>2 DEF RcvReturns
    <3> QED
      BY <1>1, <1>2, <2>2, <3>1 DEF Counts
  <2> QED
    BY <2>1, <2>2
<1>4. Woke(s, sched', {}) /\ Completes(s, sched')
  <2>1. CASE k = "lwt_join"
    <3>1. sched' = lwt_yield_to(s, x)
      BY <2>1 DEF RcvReturns
    <3> QED
      BY <1>1, <2>1, <3>1, YieldToWoke
  <2>2. CASE k # "lwt_join"
    BY <2>2, ReorderedReflexive, ReorderedWoke DEF RcvReturns, Completes
  <2> QED
    BY <2>1, <2>2
<1>5. /\ pc'[me] \in {"client", "lwt_join_yield"} /\ delivered' = << c, v >>
      /\ \A u \in Threads \ {me} : pc'[u] = pc[u]
  BY <1>1 DEF RcvReturns
<1>6. IsRunnable(sched', me)
  BY <1>4 DEF Woke, Stands, IsRunnable
<1> QED
  BY <1>3, <1>4, <1>5, <1>6 DEF Delivers

\* The first blocked sender is unlinked from its queue and resumed.
LEMMA FirstSenderResumed ==
  ASSUME BaseInv, me # NULL, NEW c \in Chans, sched.queue[c] # << >>
  PROVE  LET h == Head(sched.queue[c])
             m == resume_thread(sched, h)
         IN  /\ h \in Threads \ {me} /\ OnList(sched.queue, c, h)
             /\ m.queue[c] = Tail(sched.queue[c])
             /\ \A d \in Chans \ {c} : m.queue[d] = sched.queue[d]
             /\ \A u \in Threads : m.block_for[u] = sched.block_for[u]
             /\ \A u \in Threads : IF u = h THEN IsRunnable(m, u) ELSE Stands(sched, m, u)
             /\ Completes(sched, m)
<1> DEFINE h == Head(sched.queue[c])
           m == resume_thread(sched, h)
<1>1. /\ sched \in Sched /\ ListsSound(sched) /\ sched.queue[c] \in Seq(Threads)
      /\ OnePlace(sched.queue) /\ DOMAIN sched.queue = Heads
  BY HeadsDistinct DEF BaseInv, IndInv, TypeOK, Sched, NobodyMisplaced, ListsSound, Placed
<1>2. /\ h \in Threads /\ 1 \in 1 .. Len(sched.queue[c]) /\ sched.queue[c][1] = h
  BY <1>1, HeadTail
<1>3. OnList(sched.queue, c, h)
  BY <1>2 DEF OnList
<1>4. h # me
  <2>1. sched.state[h] = "LWT_BLOCKED"
    BY <1>1, <1>2, <1>3 DEF ListsSound, Placed
  <2> QED
    BY <2>1, CurrentIsThread DEF BaseInv
<1>5. Distinct(sched.queue[c])
  BY <1>1, HeadsDistinct DEF OnePlace, Distinct
<1>6. \A d \in Chans \ {c} : ~In(sched.queue[d], h)
  BY <1>1, <1>2, HeadsDistinct DEF OnePlace, In
<1>7. Unlinked(sched.queue[c], h) = Tail(sched.queue[c])
  BY <1>1, <1>5, UnlinkedHead
<1>8. \A d \in Chans \ {c} : Unlinked(sched.queue[d], h) = sched.queue[d]
  BY <1>6, UnlinkedAbsent
<1> HIDE DEF h
<1>9. Resumed(sched, m, h) /\ Completes(sched, m)
  BY <1>1, <1>2, ResumeView DEF Completes
<1> HIDE DEF m
<1>10. \A u \in Threads : IF u = h THEN IsRunnable(m, u) ELSE Stands(sched, m, u)
  BY <1>9 DEF Resumed, Stands, IsRunnable
<1>11. /\ m.queue[c] = Tail(sched.queue[c])
       /\ \A d \in Chans \ {c} : m.queue[d] = sched.queue[d]
       /\ \A u \in Threads : m.block_for[u] = sched.block_for[u]
  BY <1>7, <1>8, <1>9 DEF Resumed
<1> QED
  BY <1>2, <1>3, <1>4, <1>9, <1>10, <1>11 DEF m, h

\* What the caller of lwt_rcv, lwt_rcv_chan or lwt_join brings.
Receives(c, k, x) ==
  /\ me \in Threads /\ pc[me] = "client" /\ c \in Chans /\ chan[c].receiver = me
  /\ IF k = "lwt_join"
       THEN /\ x \in Threads \ {me} /\ x \notin joined /\ c = thd[x].chl
            /\ joined' = joined \cup {x}
       ELSE k \in {"lwt_rcv", "lwt_rcv_chan"} /\ c \in made /\ UNCHANGED joined

LEMMA RcvShape ==
  ASSUME BaseInv, NEW c, NEW k, NEW x, Receives(c, k, x), Rcv(c, k, x)
  PROVE  /\ (\E v \in Values \cup {NULL} : Takes(c, v, k, x)) \/ Sleeps(c, k, x)
         /\ Completes(sched, sched')
<1>0. /\ me \in Threads /\ pc[me] = "client" /\ c \in Chans /\ chan[c].receiver = me
      /\ me # NULL /\ k \in RcvCalls /\ (k = "lwt_join" => x \in Threads)
  BY SchedAssumption DEF Receives, RcvCalls
<1>1. /\ sched \in Sched /\ ListsSound(sched) /\ sched.current_thread = me
      /\ chan \in [Chans -> Channel] /\ thd \in [Threads -> ThreadFields]
      /\ pc \in [Threads -> Places] /\ event \in [Threads -> Chans \cup {NULL}]
      /\ arg \in [Threads -> Threads \cup Groups \cup {NULL}]
      /\ IsRunnable(sched, me)
  BY <1>0, CurrentIsThread DEF BaseInv, IndInv, TypeOK, NobodyMisplaced, me, IsRunnable
<1>2. /\ arg' = [arg EXCEPT ![me] = x]
      /\ event' = [event EXCEPT ![me] = IF @ = c THEN NULL ELSE @]
      /\ UNCHANGED << grp, chl_list, made >>
  BY DEF Rcv
<1>3. /\ event'[me] = (IF event[me] = c THEN NULL ELSE event[me])
      /\ \A u \in Threads \ {me} : event'[u] = event[u] /\ arg'[u] = arg[u]
  BY <1>0, <1>1, <1>2
<1>4. CASE RcvBuffer(c, k, x)
  <2> DEFINE senders == sched.queue[c]
             v == Head(chan[c].buffer)
             s == IF senders = << >> THEN sched ELSE resume_thread(sched, Head(senders))
             q == Refilled(c)
             b == q # << >>
             ch == [chan EXCEPT ![c].buffer = q, ![c].ready = b]
  <2>1. /\ chan[c].buffer # << >> /\ RcvReturns(c, v, k, x, s, ch) /\ UNCHANGED thd
    BY <1>4 DEF RcvBuffer
  <2>2. v \in Values \cup {NULL} /\ q \in Seq(Values \cup {NULL})
    <3>1. chan[c].buffer \in Seq(Values \cup {NULL})
      BY <1>0, ChannelOf DEF BaseInv, IndInv
    <3>2. v \in Values \cup {NULL} /\ Tail(chan[c].buffer) \in Seq(Values \cup {NULL})
      BY <2>1, <3>1, HeadTail
    <3>3. senders # << >> => thd[Head(senders)].message_data \in Values \cup {NULL}
      BY <1>0, FirstSender DEF BaseInv
    <3> QED
      BY <3>2, <3>3, AppendProperties DEF Refilled
  <2>3. s \in Sched /\ ListsSound(s) /\ s.current_thread = me /\ Completes(sched, s)
    BY <1>0, <1>1, FirstSender, FirstSenderResumed DEF BaseInv, Completes
  <2>4. /\ IF senders = << >>
             THEN s.queue[c] = << >> /\ \A u \in Threads : Stands(sched, s, u)
             ELSE /\ s.queue[c] = Tail(senders)
                  /\ \A u \in Threads : IF u = Head(senders) THEN IsRunnable(s, u)
                                                             ELSE Stands(sched, s, u)
        /\ \A d \in Chans \ {c} : s.queue[d] = sched.queue[d]
        /\ \A u \in Threads : s.block_for[u] = sched.block_for[u]
        /\ senders # << >> => Head(senders) \in Threads \ {me}
    <3>1. CASE senders = << >>
      BY <3>1 DEF Stands
    <3>2. CASE senders # << >>
      BY <1>0, <3>2, FirstSenderResumed
    <3> QED
      BY <3>1, <3>2
  <2>5. [chan EXCEPT ![c].buffer = q, ![c].ready = b] = [chan EXCEPT ![c].ready = b, ![c].buffer = q]
    BY <1>0, <1>1 DEF Channel
  <2>6. ch \in [Chans -> Channel]
    <3> DEFINE r == [chan[c] EXCEPT !.buffer = q]
               w == [r EXCEPT !.ready = b]
    <3>1. ch = [chan EXCEPT ![c] = w]
      OBVIOUS
    <3>2. r \in Channel
      BY <1>0, <2>2, ChannelOf, ChannelUpdates DEF BaseInv, IndInv
    <3> HIDE DEF r
    <3>3. w \in Channel
      BY <3>2, ChannelUpdates
    <3> HIDE DEF w
    <3> QED
      BY <1>1, <3>1, <3>3
  <2> HIDE DEF s, q, b, v
  <2>7. /\ ch[c].ready = b /\ ch[c].buffer = q
        /\ \A d \in Chans \ {c} : ch[d] = chan[d]
        /\ \A d \in Chans : /\ ch[d].live = chan[d].live /\ ch[d].receiver = chan[d].receiver
                            /\ ch[d].size = chan[d].size /\ ch[d].cgroup = chan[d].cgroup
                            /\ ch[d].snd_cnt = chan[d].snd_cnt
    BY <1>0, <1>1, <2>5, ReadyShape
  <2> HIDE DEF ch
  <2>8. IsRunnable(s, me)
    BY <1>0, <1>1, <2>4 DEF Stands, IsRunnable
  <2>9. /\ Delivers(c, v, k)
        /\ \A d \in Chans : /\ chan'[d].live = ch[d].live /\ chan'[d].receiver = ch[d].receiver
                            /\ chan'[d].size = ch[d].size /\ chan'[d].cgroup = ch[d].cgroup
                            /\ chan'[d].buffer = ch[d].buffer /\ chan'[d].ready = ch[d].ready
        /\ \A u \in Threads \ {me} : pc'[u] = pc[u]
        /\ Woke(s, sched', {}) /\ Completes(s, sched')
    BY <1>0, <2>1, <2>3, <2>6, <2>7, <2>8, DeliversShape
  <2>10. Receiver(c, k, x)
    BY <1>2, <1>3, <2>1, <2>7, <2>9
       DEF Receives, Receiver, SameOwners, SameMembers, SameCalls, SameData
  <2>11. Unblocks(c) /\ SameQueues({c})
    <3>1. CASE senders = << >>
      BY <1>0, <2>4, <2>9, <3>1 DEF Unblocks, OthersStand, Woke, SameQueues, Stands, IsRunnable
    <3>2. CASE senders # << >>
      BY <1>0, <2>4, <2>9, <3>2 DEF Unblocks, OthersStand, Woke, SameQueues, Stands, IsRunnable
    <3> QED
      BY <3>1, <3>2
  <2>12. FromBuffer(c, v)
    BY <1>0, <2>1, <2>7, <2>9 DEF FromBuffer, q, b, v
  <2>13. SameRcving({}) /\ SameContents({c})
    BY <2>1, <2>7, <2>9 DEF SameRcving, SameContents
  <2>14. Completes(sched, sched')
    BY <1>0, <2>3, <2>9 DEF Completes, me
  <2> QED
    BY <2>2, <2>9, <2>10, <2>11, <2>12, <2>13, <2>14 DEF Takes
<1>5. CASE RcvSender(c, k, x)
  <2> DEFINE senders == sched.queue[c]
             h == Head(senders)
             v == thd[h].message_data
             s == resume_thread(sched, h)
             b == SendersLeft(c)
             ch == [chan EXCEPT ![c].ready = b]
  <2>1. /\ chan[c].buffer = << >> /\ senders # << >>
        /\ RcvReturns(c, v, k, x, s, ch) /\ UNCHANGED thd
    BY <1>5 DEF RcvSender
  <2>2. v \in Values \cup {NULL} /\ b \in BOOLEAN
    BY <1>0, <2>1, FirstSender DEF SendersLeft, BaseInv
  <2>3. s \in Sched /\ ListsSound(s) /\ s.current_thread = me
    BY <1>0, <2>1, FirstSender DEF BaseInv
  <2>4. /\ Completes(sched, s) /\ h \in Threads \ {me}
        /\ s.queue[c] = Tail(senders)
        /\ \A u \in Threads : IF u = h THEN IsRunnable(s, u) ELSE Stands(sched, s, u)
        /\ \A d \in Chans \ {c} : s.queue[d] = sched.queue[d]
        /\ \A u \in Threads : s.block_for[u] = sched.block_for[u]
    BY <1>0, <2>1, FirstSenderResumed
  <2>5. ch \in [Chans -> Channel]
    <3> DEFINE r == [chan[c] EXCEPT !.ready = b]
    <3>1. ch = [chan EXCEPT ![c] = r]
      OBVIOUS
    <3>2. r \in Channel
      BY <1>0, <2>2, ChannelOf, ChannelUpdates DEF BaseInv, IndInv
    <3> HIDE DEF r
    <3> QED
      BY <1>1, <3>1, <3>2
  <2> HIDE DEF s, b, v
  <2>6. /\ ch[c].ready = b /\ ch[c].buffer = chan[c].buffer
        /\ \A d \in Chans \ {c} : ch[d] = chan[d]
        /\ \A d \in Chans : /\ ch[d].live = chan[d].live /\ ch[d].receiver = chan[d].receiver
                            /\ ch[d].size = chan[d].size /\ ch[d].cgroup = chan[d].cgroup
                            /\ ch[d].snd_cnt = chan[d].snd_cnt
    BY <1>0, <1>1, ReadyShape
  <2> HIDE DEF ch
  <2>7. IsRunnable(s, me)
    BY <1>0, <1>1, <2>4 DEF Stands, IsRunnable
  <2>8. /\ Delivers(c, v, k)
        /\ \A d \in Chans : /\ chan'[d].live = ch[d].live /\ chan'[d].receiver = ch[d].receiver
                            /\ chan'[d].size = ch[d].size /\ chan'[d].cgroup = ch[d].cgroup
                            /\ chan'[d].buffer = ch[d].buffer /\ chan'[d].ready = ch[d].ready
        /\ \A u \in Threads \ {me} : pc'[u] = pc[u]
        /\ Woke(s, sched', {}) /\ Completes(s, sched')
    BY <1>0, <2>1, <2>3, <2>5, <2>6, <2>7, DeliversShape
  <2>9. Receiver(c, k, x)
    BY <1>2, <1>3, <2>1, <2>6, <2>8
       DEF Receives, Receiver, SameOwners, SameMembers, SameCalls, SameData
  <2>10. Unblocks(c) /\ SameQueues({c})
    BY <1>0, <2>1, <2>4, <2>8 DEF Unblocks, OthersStand, Woke, SameQueues, Stands, IsRunnable
  <2>11. FromSender(c, v)
    BY <1>0, <2>1, <2>6, <2>8 DEF FromSender, b, v
  <2>12. SameRcving({}) /\ SameContents({c})
    BY <2>1, <2>6, <2>8 DEF SameRcving, SameContents
  <2>13. Completes(sched, sched')
    BY <1>0, <2>3, <2>4, <2>8 DEF Completes, me
  <2> QED
    BY <2>2, <2>8, <2>9, <2>10, <2>11, <2>12, <2>13 DEF Takes
<1>6. CASE RcvBlock(c, k)
  <2> DEFINE m == block_thread(sched, "BLOCKED_RECEIVING", c)
             r == [thd[me] EXCEPT !.now_rcving = c]
  <2>1. /\ chan[c].buffer = << >> /\ sched.queue[c] = << >>
        /\ sched' = m /\ pc' = [pc EXCEPT ![me] = k] /\ thd' = [thd EXCEPT ![me] = r]
        /\ UNCHANGED << chan, refs, delivered >>
    BY <1>6 DEF RcvBlock
  <2>2. /\ Blocked(sched, m, me, "BLOCKED_RECEIVING", c)
        /\ NoneMissing(sched) => NoneMissing(m)
        /\ Busy(m)
    BY <1>0, <1>1, BlockView DEF BlockStatus
  <2> HIDE DEF m
  <2>3. /\ SameQueues({}) /\ OthersStand({}) /\ Completes(sched, sched')
        /\ sched'.state[me] = "LWT_BLOCKED" /\ sched'.block_for[me] = "BLOCKED_RECEIVING"
    BY <1>0, <2>1, <2>2 DEF Blocked, SameQueues, OthersStand, Completes
  <2>4. /\ r.now_rcving = c /\ r.chl = thd[me].chl /\ r.parent = thd[me].parent
        /\ r.message_data = thd[me].message_data
    BY <1>0, <1>1 DEF ThreadFields
  <2> HIDE DEF r
  <2>5. /\ thd'[me] = r /\ pc'[me] = k
        /\ \A u \in Threads \ {me} : thd'[u] = thd[u] /\ pc'[u] = pc[u]
    BY <1>0, <1>1, <2>1
  <2>6. /\ SameData({}) /\ SameRcving({me}) /\ thd'[me].now_rcving = c
        /\ \A u \in Threads : thd'[u].chl = thd[u].chl /\ thd'[u].parent = thd[u].parent
    BY <2>4, <2>5 DEF SameData, SameRcving
  <2>7. Receiver(c, k, x)
    BY <1>2, <1>3, <2>1, <2>5, <2>6
       DEF Receives, Receiver, SameOwners, SameMembers, SameCalls
  <2> QED
    BY <2>1, <2>3, <2>5, <2>6, <2>7 DEF Sleeps, SameRefs, SameContents
<1> QED
  BY <1>4, <1>5, <1>6 DEF Rcv

LEMMA LwtRcvShape ==
  ASSUME BaseInv, NEW c \in Chans, lwt_rcv(c) \/ lwt_rcv_chan(c)
  PROVE  /\ \E k \in RcvCalls : \/ \E v \in Values \cup {NULL} : Takes(c, v, k, NULL)
                                \/ Sleeps(c, k, NULL)
         /\ Completes(sched, sched')
<1>1. PICK k \in {"lwt_rcv", "lwt_rcv_chan"} :
        me # NULL /\ pc[me] = "client" /\ MayRcv(c) /\ Rcv(c, k, NULL) /\ UNCHANGED joined
  BY DEF lwt_rcv, lwt_rcv_chan, Client
<1>2. Receives(c, k, NULL)
  BY <1>1, CurrentIsThread DEF Receives, MayRcv, BaseInv
<1>3. k \in RcvCalls
  BY DEF RcvCalls
<1> QED
  BY <1>1, <1>2, <1>3, RcvShape

LEMMA LwtJoinShape ==
  ASSUME BaseInv, NEW t \in Threads, lwt_join(t)
  PROVE  /\ \/ Passes
            \/ \E c \in Chans : \/ \E v \in Values \cup {NULL} : Takes(c, v, "lwt_join", t)
                                \/ Sleeps(c, "lwt_join", t)
         /\ Completes(sched, sched')
<1>1. me # NULL /\ pc[me] = "client" /\ me \in Threads /\ t # me /\ t \notin joined
  BY CurrentIsThread DEF lwt_join, Client, MayJoin, BaseInv
<1>2. CASE UNCHANGED vars
  BY <1>1, <1>2, UnchangedShape
<1>3. CASE /\ thd[t].parent = me /\ Rcv(thd[t].chl, "lwt_join", t)
           /\ joined' = joined \cup {t}
  <2>1. thd[t].chl \in Chans
    BY <1>1, <1>3 DEF BaseInv, IndInv, ThreadsInv
  <2>2. chan[thd[t].chl].receiver = me
    BY <1>3, <2>1, SchedAssumption DEF BaseInv, ChansInv, OwnChannels
  <2>3. Receives(thd[t].chl, "lwt_join", t)
    BY <1>1, <1>3, <2>1, <2>2 DEF Receives
  <2> QED
    BY <1>3, <2>1, <2>3, RcvShape
<1> QED
  BY <1>2, <1>3 DEF lwt_join

LEMMA RcvResumesShape ==
  ASSUME BaseInv, RcvResumes
  PROVE  Awakes /\ Completes(sched, sched')
<1>1. /\ me # NULL /\ InRcv(me) /\ pc[me] \in RcvCalls
      /\ RcvReturns(thd[me].now_rcving, thd[me].message_data, pc[me], arg[me], sched, chan)
      /\ UNCHANGED << thd, grp, chl_list, arg, made, event, joined >>
  BY DEF RcvResumes, InRcv, RcvCalls
<1>2. /\ me \in Threads /\ sched \in Sched /\ ListsSound(sched) /\ sched.current_thread = me
      /\ chan \in [Chans -> Channel] /\ IsRunnable(sched, me)
      /\ (pc[me] = "lwt_join" => arg[me] \in Threads)
  BY <1>1, CurrentIsThread
     DEF BaseInv, IndInv, TypeOK, NobodyMisplaced, me, IsRunnable, ThreadsInv
<1>3. /\ Delivers(thd[me].now_rcving, thd[me].message_data, pc[me])
      /\ \A d \in Chans : /\ chan'[d].live = chan[d].live /\ chan'[d].receiver = chan[d].receiver
                          /\ chan'[d].size = chan[d].size /\ chan'[d].cgroup = chan[d].cgroup
                          /\ chan'[d].buffer = chan[d].buffer /\ chan'[d].ready = chan[d].ready
      /\ \A u \in Threads \ {me} : pc'[u] = pc[u]
      /\ Woke(sched, sched', {}) /\ Completes(sched, sched')
  BY <1>1, <1>2, DeliversShape
<1>4. SameQueues({}) /\ OthersStand({})
  BY <1>3 DEF Woke, SameQueues, OthersStand
<1> QED
  BY <1>1, <1>2, <1>3, <1>4
     DEF Awakes, SameOwners, SameMembers, SameCalls, SameData, SameRcving, SameContents

-----------------------------------------------------------------------------
(* Threads and channels.                                                    *)

SameChannel(c) == chan'[c] = chan[c]

\* The block c is made a channel of the current thread, with n references.
Inits(c, size, n) ==
  /\ ~chan[c].live /\ size \in Nat
  /\ chan'[c].live /\ chan'[c].receiver = me /\ chan'[c].snd_cnt = n
  /\ chan'[c].size = size /\ chan'[c].buffer = << >>
  /\ chan'[c].ready = chan[c].ready /\ chan'[c].cgroup = chan[c].cgroup
  /\ sched'.queue[c] = << >> /\ SameQueues({c})

Opens(c, size) ==
  /\ me \in Threads /\ pc[me] = "client" /\ c \in Chans /\ Inits(c, size, 0)
  /\ \A d \in Chans \ {c} : SameChannel(d)
  /\ \A u \in Threads : sched'.state[u] = sched.state[u] /\ sched'.block_for[u] = sched.block_for[u]
  /\ made' = made \cup {c}
  /\ UNCHANGED << thd, grp, chl_list, pc, arg, event, refs, joined, delivered >>

Spawns(t, x, given) ==
  /\ me \in Threads /\ pc[me] = "client"
  /\ t \in Threads \ {me} /\ pc[t] = "client" /\ sched.state[t] \in Gone
  /\ x \in Chans /\ Inits(x, 0, 1)
  /\ given # NULL => given \in made
  /\ \A d \in Chans \ {x, given} : SameChannel(d)
  /\ \A d \in Chans \ {x} :
       /\ chan'[d].live = chan[d].live /\ chan'[d].receiver = chan[d].receiver
       /\ chan'[d].size = chan[d].size /\ chan'[d].cgroup = chan[d].cgroup
       /\ chan'[d].buffer = chan[d].buffer /\ chan'[d].ready = chan[d].ready
       /\ chan'[d].snd_cnt = chan[d].snd_cnt + (IF d = given THEN 1 ELSE 0)
  /\ \A u \in Threads :
       /\ sched'.state[u] = (IF u = t THEN "LWT_RUNNING" ELSE sched.state[u])
       /\ sched'.block_for[u] = sched.block_for[u]
       /\ pc'[u] = (IF u = t THEN "client" ELSE pc[u])
       /\ arg'[u] = (IF u = t THEN NULL ELSE arg[u])
       /\ event'[u] = (IF u = t THEN NULL ELSE event[u])
       /\ \A d \in Chans : refs'[d][u] =
            (IF u # t THEN refs[d][u] ELSE IF d = given THEN 1 ELSE 0)
  /\ thd'[t].chl = x /\ thd'[t].parent = me /\ thd'[t].now_rcving = thd[t].now_rcving
  /\ \A u \in Threads \ {t} : thd'[u] = thd[u]
  /\ joined' = joined \ {t}
  /\ UNCHANGED << grp, chl_list, made, delivered >>

\* The current thread drops its side of c.
Drops(c) ==
  /\ me \in Threads /\ pc[me] = "client" /\ c \in Chans /\ MayDeref(c)
  /\ IF chan[c].receiver = me
       THEN /\ chan'[c].receiver = NULL /\ chan'[c].snd_cnt = chan[c].snd_cnt /\ UNCHANGED refs
       ELSE /\ chan'[c].receiver = chan[c].receiver
            /\ chan'[c].snd_cnt = chan[c].snd_cnt - 1
            /\ \A d \in Chans, u \in Threads : refs'[d][u] =
                 (IF d = c /\ u = me THEN refs[d][u] - 1 ELSE refs[d][u])
  /\ chan'[c].live = (chan[c].live /\ ~(chan'[c].snd_cnt = 0 /\ chan'[c].receiver = NULL))
  /\ chan'[c].size = chan[c].size /\ chan'[c].cgroup = chan[c].cgroup
  /\ chan'[c].buffer = chan[c].buffer /\ chan'[c].ready = chan[c].ready
  /\ \A d \in Chans \ {c} : SameChannel(d)
  /\ made' = IF chan'[c].live THEN made ELSE made \ {c}
  /\ UNCHANGED << sched, thd, grp, chl_list, pc, arg, event, joined, delivered >>

LEMMA NewChanShape ==
  ASSUME NEW c \in Chans, chan[c] \in Channel, NEW size \in Nat
  PROVE  LET n == NewChan(c, size)
         IN  /\ n.live /\ n.receiver = me /\ n.snd_cnt = 0 /\ n.size = size /\ n.buffer = << >>
             /\ n.ready = chan[c].ready /\ n.cgroup = chan[c].cgroup
             /\ DOMAIN n = DOMAIN chan[c]
  BY DEF NewChan, Channel

LEMMA LwtChanShape ==
  ASSUME BaseInv, NEW c \in Chans, NEW size \in Sizes, lwt_chan(c, size)
  PROVE  /\ Opens(c, size)
         /\ sched.queue[c] = << >> => Completes(sched, sched')
<1> DEFINE n == NewChan(c, size)
           m == [sched EXCEPT !.queue = list_head_init(@, c)]
<1>1. /\ me # NULL /\ pc[me] = "client" /\ ~chan[c].live
      /\ chan' = [chan EXCEPT ![c] = n] /\ sched' = m
      /\ made' = made \cup {c}
      /\ UNCHANGED << thd, grp, chl_list, pc, arg, event, refs, joined, delivered >>
  BY DEF lwt_chan, Client
<1>2. me \in Threads /\ sched \in Sched /\ chan \in [Chans -> Channel] /\ size \in Nat
  BY <1>1, CurrentIsThread, LwtAssumption DEF BaseInv, IndInv, TypeOK
<1>3. /\ n.live /\ n.receiver = me /\ n.snd_cnt = 0 /\ n.size = size /\ n.buffer = << >>
      /\ n.ready = chan[c].ready /\ n.cgroup = chan[c].cgroup
  BY <1>2, NewChanShape
<1>4. /\ \A h \in Heads : m.queue[h] = IF h = c THEN << >> ELSE sched.queue[h]
      /\ m.state = sched.state /\ m.block_for = sched.block_for
      /\ sched.queue[c] = << >> /\ NoneMissing(sched) => NoneMissing(m)
      /\ Busy(sched) => Busy(m)
  BY <1>2, EmptiedView
<1> HIDE DEF n, m
<1>5. chan'[c] = n /\ \A d \in Chans \ {c} : chan'[d] = chan[d]
  BY <1>1, <1>2
<1>6. Inits(c, size, 0)
  BY <1>1, <1>2, <1>3, <1>4, <1>5, HeadsDistinct DEF Inits, SameQueues
<1> QED
  BY <1>1, <1>2, <1>4, <1>5, <1>6 DEF Opens, SameChannel, Completes

LEMMA CreateShape ==
  ASSUME BaseInv, me # NULL, pc[me] = "client", NEW t \in Threads, NEW x \in Chans,
         NEW nojoin \in BOOLEAN, NEW given \in Chans \cup {NULL}, given # NULL => given \in made,
         Create(t, x, nojoin, given)
  PROVE  /\ Spawns(t, x, given)
         /\ sched.queue[x] = << >> => Completes(sched, sched')
<1> DEFINE m == [SchedCreate(sched, t) EXCEPT !.queue = list_head_init(@, x)]
           r == [thd[t] EXCEPT !.parent = me, !.nojoin = nojoin, !.message_data = NULL, !.chl = x]
<1>1. /\ ~chan[x].live /\ sched' = m /\ thd' = [thd EXCEPT ![t] = r]
      /\ pc' = [pc EXCEPT ![t] = "client"] /\ arg' = [arg EXCEPT ![t] = NULL]
      /\ event' = [event EXCEPT ![t] = NULL] /\ joined' = joined \ {t}
      /\ refs' = [c \in Chans |-> [refs[c] EXCEPT ![t] = IF c = given THEN 1 ELSE 0]]
      /\ UNCHANGED << grp, chl_list, made, delivered >>
  BY DEF Create
<1>2. /\ me \in Threads /\ sched \in Sched /\ ListsSound(sched) /\ chan \in [Chans -> Channel]
      /\ thd \in [Threads -> ThreadFields] /\ pc \in [Threads -> Places]
      /\ arg \in [Threads -> Threads \cup Groups \cup {NULL}]
      /\ event \in [Threads -> Chans \cup {NULL}] /\ refs \in [Chans -> [Threads -> Int]]
  BY CurrentIsThread DEF BaseInv, IndInv, TypeOK, NobodyMisplaced
<1>3. sched.state[t] \in Gone /\ t # me /\ pc[t] = "client"
  BY AllocatesGone DEF Create, BaseInv
<1>4. /\ Created(sched, m, t, x)
      /\ sched.queue[x] = << >> /\ NoneMissing(sched) => NoneMissing(m)
      /\ Busy(sched) /\ sched.current_thread # NULL => Busy(m)
  BY <1>2, <1>3, CreateView
<1> HIDE DEF m
<1>5. \A u \in Threads :
        /\ pc'[u] = (IF u = t THEN "client" ELSE pc[u])
        /\ arg'[u] = (IF u = t THEN NULL ELSE arg[u])
        /\ event'[u] = (IF u = t THEN NULL ELSE event[u])
        /\ \A d \in Chans : refs'[d][u] =
             (IF u # t THEN refs[d][u] ELSE IF d = given THEN 1 ELSE 0)
  BY <1>1, <1>2
<1>6. r.chl = x /\ r.parent = me /\ r.now_rcving = thd[t].now_rcving
  BY <1>2 DEF ThreadFields
<1> HIDE DEF r
<1>7. thd'[t] = r /\ \A u \in Threads \ {t} : thd'[u] = thd[u]
  BY <1>1, <1>2
<1>8. chan' = [c \in Chans |->
                 IF c = x THEN [NewChan(c, 0) EXCEPT !.snd_cnt = 1]
                 ELSE IF c = given THEN [chan[c] EXCEPT !.snd_cnt = @ + 1] ELSE chan[c]]
  BY DEF Create
<1>9. /\ chan'[x].live /\ chan'[x].receiver = me /\ chan'[x].snd_cnt = 1
      /\ chan'[x].size = 0 /\ chan'[x].buffer = << >>
      /\ chan'[x].ready = chan[x].ready /\ chan'[x].cgroup = chan[x].cgroup
  <2> DEFINE n == NewChan(x, 0)
  <2>1. /\ n.live /\ n.receiver = me /\ n.snd_cnt = 0 /\ n.size = 0 /\ n.buffer = << >>
        /\ n.ready = chan[x].ready /\ n.cgroup = chan[x].cgroup
        /\ DOMAIN n = DOMAIN chan[x]
    BY <1>2, NewChanShape
  <2>2. chan'[x] = [n EXCEPT !.snd_cnt = 1]
    BY <1>8
  <2>3. "snd_cnt" \in DOMAIN chan[x]
    BY <1>2 DEF Channel
  <2> HIDE DEF n
  <2> QED
    BY <2>1, <2>2, <2>3
<1>10. ASSUME NEW d \in Chans \ {x}
       PROVE  /\ d # given => chan'[d] = chan[d]
              /\ chan'[d].live = chan[d].live /\ chan'[d].receiver = chan[d].receiver
              /\ chan'[d].size = chan[d].size /\ chan'[d].cgroup = chan[d].cgroup
              /\ chan'[d].buffer = chan[d].buffer /\ chan'[d].ready = chan[d].ready
              /\ chan'[d].snd_cnt = chan[d].snd_cnt + (IF d = given THEN 1 ELSE 0)
  <2>1. chan[d] \in Channel
    BY <1>2
  <2>2. CASE d = given
    <3>1. chan'[d] = [chan[d] EXCEPT !.snd_cnt = @ + 1]
      BY <1>8, <2>2
    <3> QED
      BY <2>1, <2>2, <3>1 DEF Channel
  <2>3. CASE d # given
    <3>1. chan'[d] = chan[d] /\ chan[d].snd_cnt \in Int
      BY <1>8, <2>1, <2>3 DEF Channel
    <3> QED
      BY <2>3, <3>1
  <2> QED
    BY <2>2, <2>3
<1>11. Inits(x, 0, 1)
  BY <1>1, <1>4, <1>9 DEF Inits, Created, SameQueues
<1>12. \A u \in Threads :
         /\ sched'.state[u] = (IF u = t THEN "LWT_RUNNING" ELSE sched.state[u])
         /\ sched'.block_for[u] = sched.block_for[u]
  BY <1>1, <1>4 DEF Created
<1>13. Spawns(t, x, given)
  BY <1>1, <1>2, <1>3, <1>5, <1>6, <1>7, <1>10, <1>11, <1>12 DEF Spawns, SameChannel
<1>14. sched.queue[x] = << >> => Completes(sched, sched')
  BY <1>1, <1>4 DEF Completes
<1> QED
  BY <1>13, <1>14

LEMMA LwtCreateShape ==
  ASSUME BaseInv, NEW t \in Threads, NEW x \in Chans, NEW nojoin \in BOOLEAN,
         lwt_create(t, x, nojoin)
  PROVE  /\ Spawns(t, x, NULL)
         /\ sched.queue[x] = << >> => Completes(sched, sched')
  BY CreateShape DEF lwt_create, Client

LEMMA LwtCreateChanShape ==
  ASSUME BaseInv, NEW t \in Threads, NEW x \in Chans, NEW c \in Chans, lwt_create_chan(t, x, c)
  PROVE  /\ Spawns(t, x, c)
         /\ sched.queue[x] = << >> => Completes(sched, sched')
  BY CreateShape DEF lwt_create_chan, Client, Knows

LEMMA LwtChanDerefShape ==
  ASSUME BaseInv, NEW c \in Chans, lwt_chan_deref(c)
  PROVE  Drops(c)
<1> DEFINE r == chan[c]
           n == Freed(Dereferenced(c))
<1>1. /\ me # NULL /\ pc[me] = "client" /\ MayDeref(c)
      /\ chan' = [chan EXCEPT ![c] = n]
      /\ refs' = [refs EXCEPT ![c][me] = IF r.receiver = me THEN @ ELSE @ - 1]
      /\ made' = IF chan'[c].live THEN made ELSE made \ {c}
      /\ UNCHANGED << sched, thd, grp, chl_list, pc, arg, event, joined, delivered >>
  BY DEF lwt_chan_deref, Client
<1>2. /\ me \in Threads /\ chan \in [Chans -> Channel] /\ r \in Channel
      /\ refs \in [Chans -> [Threads -> Int]]
  BY <1>1, CurrentIsThread DEF BaseInv, IndInv, TypeOK
<1>3. /\ n.receiver = (IF r.receiver = me THEN NULL ELSE r.receiver)
      /\ n.snd_cnt = (IF r.receiver = me THEN r.snd_cnt ELSE r.snd_cnt - 1)
      /\ n.live = (r.live /\ ~(n.snd_cnt = 0 /\ n.receiver = NULL))
      /\ n.size = r.size /\ n.cgroup = r.cgroup /\ n.buffer = r.buffer /\ n.ready = r.ready
  <2> DEFINE d == Dereferenced(c)
  <2>1. /\ d.receiver = (IF r.receiver = me THEN NULL ELSE r.receiver)
        /\ d.snd_cnt = (IF r.receiver = me THEN r.snd_cnt ELSE r.snd_cnt - 1)
        /\ d.live = r.live /\ d.size = r.size /\ d.cgroup = r.cgroup /\ d.buffer = r.buffer
        /\ d.ready = r.ready /\ DOMAIN d = DOMAIN r
    BY <1>2 DEF Dereferenced, Channel
  <2>2. r.live \in BOOLEAN
    BY <1>2 DEF Channel
  <2>3. n = IF d.snd_cnt = 0 /\ d.receiver = NULL THEN [d EXCEPT !.live = FALSE] ELSE d
    BY DEF Freed
  <2>4. {"live", "receiver", "snd_cnt", "size", "buffer", "ready", "cgroup"} = DOMAIN r
    BY <1>2 DEF Channel
  <2> HIDE DEF d, n
  <2>5. CASE d.snd_cnt = 0 /\ d.receiver = NULL
    BY <2>1, <2>3, <2>4, <2>5
  <2>6. CASE ~(d.snd_cnt = 0 /\ d.receiver = NULL)
    BY <2>1, <2>2, <2>3, <2>6
  <2> QED
    BY <2>5, <2>6
<1> HIDE DEF n
<1>4. chan'[c] = n /\ \A d \in Chans \ {c} : chan'[d] = chan[d]
  BY <1>1, <1>2
<1> DEFINE w == IF r.receiver = me THEN refs[c][me] ELSE refs[c][me] - 1
           q == [refs[c] EXCEPT ![me] = w]
<1>5. refs' = [refs EXCEPT ![c] = q] /\ refs[c] \in [Threads -> Int]
  BY <1>1, <1>2
<1>6. q[me] = w /\ \A u \in Threads \ {me} : q[u] = refs[c][u]
  BY <1>2, <1>5
<1>7. r.receiver = me => q = refs[c]
  BY <1>5
<1> HIDE DEF q
<1>8. refs'[c] = q /\ \A d \in Chans \ {c} : refs'[d] = refs[d]
  BY <1>2, <1>5
<1>9. r.receiver = me => UNCHANGED refs
  BY <1>2, <1>5, <1>7
<1>10. r.receiver # me => \A d \in Chans, u \in Threads :
         refs'[d][u] = IF d = c /\ u = me THEN refs[d][u] - 1 ELSE refs[d][u]
  BY <1>6, <1>8
<1> QED
  BY <1>1, <1>2, <1>3, <1>4, <1>9, <1>10 DEF Drops, SameChannel

-----------------------------------------------------------------------------
(* Channel groups.                                                          *)

\* A call of the owner of g on its channel c.
Owner(g, c) == me \in Threads /\ pc[me] = "client" /\ g \in Groups /\ c \in Chans /\ MayGroup(g)

\* Of all channels, only c changes its group.
Regroups(g, c, h) ==
  /\ Owner(g, c) /\ chan'[c].cgroup = h
  /\ \A d \in Chans \ {c} : chan'[d].cgroup = chan[d].cgroup
  /\ SameOwners /\ SameRefs /\ SameContents({})
  /\ UNCHANGED << sched, thd, grp, pc, arg, clientVars >>

Adds(g, c) == Regroups(g, c, g) /\ MayAdd(g, c) /\ chan[c].cgroup = NULL
Removes(g, c) == Regroups(g, c, NULL) /\ ~chan[c].ready /\ chan[c].cgroup = g

\* The group g is made or freed: no channel is in it, and nobody waits on it.
Renews(g) ==
  /\ me \in Threads /\ g \in Groups
  /\ \A h \in Groups \ {g} : grp'[h] = grp[h]
  /\ \A d \in Chans : chan[d].cgroup # g
  /\ \A t \in Threads : pc[t] = "lwt_cgrp_wait" => arg[t] # g
  /\ UNCHANGED << sched, thd, chan, pc, arg, clientVars >>

\* The owner of g is in the loop of lwt_cgrp_wait.
Waiting(g) ==
  /\ me \in Threads /\ g \in Groups /\ grp[g].owner = me
  /\ pc[me] = "client" \/ (pc[me] = "lwt_cgrp_wait" /\ arg[me] = g)
  /\ grp'[g].owner = grp[g].owner /\ \A h \in Groups \ {g} : grp'[h] = grp[h]
  /\ SameCalls /\ UNCHANGED << thd, chan, made, refs, joined, delivered >>

Returns(g, c) ==
  /\ Waiting(g) /\ c \in Chans /\ chan[c].cgroup = g /\ chan[c].ready
  /\ event'[me] = c /\ \A u \in Threads \ {me} : event'[u] = event[u]
  /\ pc'[me] = "client" /\ UNCHANGED << sched, arg >>

Waits(g) ==
  /\ Waiting(g) /\ \A c \in Chans : chan[c].cgroup = g => ~chan[c].ready
  /\ pc[me] = "client" => MayWait(g)
  /\ grp'[g].live = grp[g].live /\ grp[g].live /\ grp'[g].blocked
  /\ pc'[me] = "lwt_cgrp_wait" /\ arg'[me] = g /\ UNCHANGED event
  /\ SameQueues({}) /\ OthersStand({})
  /\ sched'.state[me] = "LWT_BLOCKED" /\ sched'.block_for[me] = "BLOCKED_RECEIVING"

LEMMA LwtCgrpShape ==
  ASSUME BaseInv, NEW g \in Groups, lwt_cgrp(g) \/ (lwt_cgrp_free(g) /\ chl_list[g] = << >>)
  PROVE  Renews(g)
<1>1. /\ me # NULL /\ pc[me] = "client"
      /\ UNCHANGED << sched, thd, chan, pc, arg, clientVars >>
  BY DEF lwt_cgrp, lwt_cgrp_free, Client
<1>2. me \in Threads /\ grp \in [Groups -> Group]
  BY <1>1, CurrentIsThread DEF BaseInv, IndInv, TypeOK
<1>3. \A h \in Groups \ {g} : grp'[h] = grp[h]
  BY <1>2 DEF lwt_cgrp, lwt_cgrp_free
<1>4. chl_list[g] = << >> /\ (~grp[g].live \/ grp[g].owner = me)
  BY DEF lwt_cgrp, lwt_cgrp_free, BaseInv, GroupsInv, MayGroup
<1>5. \A d \in Chans : chan[d].cgroup # g
  BY <1>4 DEF BaseInv, GroupsInv, GroupsPartition, OnList
<1>6. \A t \in Threads : pc[t] = "lwt_cgrp_wait" => arg[t] # g
  BY <1>1, <1>4 DEF BaseInv, IndInv, BlockedOwnersWait
<1> QED
  BY <1>1, <1>2, <1>3, <1>5, <1>6 DEF Renews

LEMMA LwtCgrpFreeShape ==
  ASSUME BaseInv, NEW g \in Groups, lwt_cgrp_free(g)
  PROVE  Passes \/ Renews(g)
<1>1. CASE chl_list[g] # << >>
  BY <1>1, UnchangedShape DEF lwt_cgrp_free, Client
<1>2. CASE chl_list[g] = << >>
  BY <1>2, LwtCgrpShape
<1> QED
  BY <1>1, <1>2

LEMMA RegroupShape ==
  ASSUME BaseInv, me # NULL, pc[me] = "client", NEW g \in Groups, MayGroup(g),
         NEW c \in Chans, NEW h \in Groups \cup {NULL},
         chan' = [chan EXCEPT ![c].cgroup = h],
         UNCHANGED << sched, thd, grp, pc, arg, clientVars >>
  PROVE  Regroups(g, c, h)
<1> DEFINE n == [chan[c] EXCEPT !.cgroup = h]
<1>1. chan' = [chan EXCEPT ![c] = n]
  OBVIOUS
<1>2. me \in Threads /\ chan \in [Chans -> Channel]
  BY CurrentIsThread DEF BaseInv, IndInv, TypeOK
<1>3. /\ n.cgroup = h /\ n.live = chan[c].live /\ n.receiver = chan[c].receiver
      /\ n.size = chan[c].size /\ n.snd_cnt = chan[c].snd_cnt /\ n.buffer = chan[c].buffer
      /\ n.ready = chan[c].ready
  BY <1>2 DEF Channel
<1> HIDE DEF n
<1>4. chan'[c] = n /\ \A d \in Chans \ {c} : chan'[d] = chan[d]
  BY <1>1, <1>2
<1> QED
  BY <1>2, <1>3, <1>4
     DEF Regroups, Owner, SameOwners, SameRefs, SameContents, clientVars

LEMMA LwtCgrpAddShape ==
  ASSUME BaseInv, NEW g \in Groups, NEW c \in Chans, lwt_cgrp_add(g, c)
  PROVE  Passes \/ Adds(g, c)
<1>1. me # NULL /\ pc[me] = "client" /\ MayAdd(g, c) /\ MayGroup(g)
  BY DEF lwt_cgrp_add, Client, MayAdd
<1>2. CASE UNCHANGED vars
  BY <1>1, <1>2, UnchangedShape
<1>3. CASE /\ chan[c].cgroup = NULL /\ chan' = [chan EXCEPT ![c].cgroup = g]
           /\ UNCHANGED << sched, thd, grp, pc, arg, clientVars >>
  BY <1>1, <1>3, RegroupShape DEF Adds
<1> QED
  BY <1>2, <1>3 DEF lwt_cgrp_add

LEMMA LwtCgrpRemShape ==
  ASSUME BaseInv, NEW g \in Groups, NEW c \in Chans, lwt_cgrp_rem(g, c)
  PROVE  Passes \/ Removes(g, c)
<1>1. me # NULL /\ pc[me] = "client" /\ MayGroup(g)
  BY DEF lwt_cgrp_rem, Client
<1>2. CASE UNCHANGED vars
  BY <1>1, <1>2, UnchangedShape
<1>3. CASE /\ ~chan[c].ready /\ chan[c].cgroup = g /\ chan' = [chan EXCEPT ![c].cgroup = NULL]
           /\ UNCHANGED << sched, thd, grp, pc, arg, clientVars >>
  BY <1>1, <1>3, RegroupShape DEF Removes
<1> QED
  BY <1>2, <1>3 DEF lwt_cgrp_rem

\* The channels of the list of g are those whose cgroup names g.
LEMMA ListedChannels ==
  ASSUME BaseInv, NEW g \in Groups
  PROVE  /\ \A i \in DOMAIN chl_list[g] : chl_list[g][i] \in Chans /\ chan[chl_list[g][i]].cgroup = g
         /\ \A c \in Chans : chan[c].cgroup = g => \E i \in DOMAIN chl_list[g] : chl_list[g][i] = c
<1>1. chl_list[g] \in Seq(Chans)
  BY DEF BaseInv, IndInv, TypeOK
<1>2. \A c \in Chans : OnList(chl_list, g, c) <=> chan[c].cgroup = g
  BY DEF BaseInv, GroupsInv, GroupsPartition
<1> QED
  BY <1>1, <1>2 DEF OnList

LEMMA WaitLoopShape ==
  ASSUME BaseInv, me # NULL, NEW g \in Groups, MayGroup(g), WaitLoop(g),
         \/ pc[me] = "client" /\ MayWait(g)
         \/ pc[me] = "lwt_cgrp_wait" /\ arg[me] = g
  PROVE  /\ (\E c \in Chans : Returns(g, c)) \/ Waits(g)
         /\ Completes(sched, sched')
<1>1. UNCHANGED << thd, chan, made, refs, joined, delivered >>
  BY DEF WaitLoop
<1>2. /\ me \in Threads /\ sched \in Sched /\ ListsSound(sched) /\ sched.current_thread = me
      /\ grp \in [Groups -> Group] /\ pc \in [Threads -> Places]
      /\ arg \in [Threads -> Threads \cup Groups \cup {NULL}]
      /\ event \in [Threads -> Chans \cup {NULL}]
      /\ grp[g].live /\ grp[g].owner = me
  BY CurrentIsThread DEF BaseInv, IndInv, TypeOK, NobodyMisplaced, me, MayGroup
<1>3. CASE WaitReturns(g)
  <2>1. PICK i \in DOMAIN chl_list[g] :
          /\ FirstReady(g, i)
          /\ grp' = [grp EXCEPT ![g].blocked = FALSE]
          /\ event' = [event EXCEPT ![me] = chl_list[g][i]]
          /\ pc' = [pc EXCEPT ![me] = "client"]
          /\ UNCHANGED << sched, arg >>
    BY <1>3 DEF WaitReturns
  <2>2. PICK c \in Chans : c = chl_list[g][i] /\ chan[c].cgroup = g
    BY <2>1, ListedChannels
  <2>3. chan[c].ready
    BY <2>1, <2>2 DEF FirstReady
  <2>4. grp'[g].owner = grp[g].owner /\ \A h \in Groups \ {g} : grp'[h] = grp[h]
    BY <1>2, <2>1 DEF Group
  <2>5. /\ event'[me] = c /\ \A u \in Threads \ {me} : event'[u] = event[u]
        /\ pc'[me] = "client" /\ \A u \in Threads \ {me} : pc'[u] = pc[u]
    BY <1>2, <2>1, <2>2
  <2>6. Waiting(g)
    BY <1>1, <1>2, <2>1, <2>4, <2>5 DEF Waiting, SameCalls
  <2>7. Completes(sched, sched')
    BY <2>1 DEF Completes
  <2> QED
    BY <2>1, <2>2, <2>3, <2>5, <2>6, <2>7 DEF Returns
<1>4. CASE WaitBlocks(g)
  <2> DEFINE m == block_thread(sched, "BLOCKED_RECEIVING", NULL)
  <2>1. /\ \A i \in DOMAIN chl_list[g] : ~chan[chl_list[g][i]].ready
        /\ grp' = [grp EXCEPT ![g].blocked = TRUE]
        /\ sched' = m /\ pc' = [pc EXCEPT ![me] = "lwt_cgrp_wait"]
        /\ arg' = [arg EXCEPT ![me] = g] /\ UNCHANGED event
    BY <1>4 DEF WaitBlocks
  <2>2. /\ Blocked(sched, m, me, "BLOCKED_RECEIVING", NULL)
        /\ NoneMissing(sched) => NoneMissing(m)
        /\ Busy(m)
    BY <1>2, BlockView DEF BlockStatus
  <2> HIDE DEF m
  <2>3. /\ SameQueues({}) /\ OthersStand({}) /\ Completes(sched, sched')
        /\ sched'.state[me] = "LWT_BLOCKED" /\ sched'.block_for[me] = "BLOCKED_RECEIVING"
    BY <1>2, <2>1, <2>2 DEF Blocked, SameQueues, OthersStand, Completes
  <2>4. \A c \in Chans : chan[c].cgroup = g => ~chan[c].ready
    BY <2>1, ListedChannels
  <2>5. /\ grp'[g].owner = grp[g].owner /\ grp'[g].live = grp[g].live /\ grp'[g].blocked
        /\ \A h \in Groups \ {g} : grp'[h] = grp[h]
    BY <1>2, <2>1 DEF Group
  <2>6. /\ pc'[me] = "lwt_cgrp_wait" /\ arg'[me] = g
        /\ \A u \in Threads \ {me} : pc'[u] = pc[u] /\ arg'[u] = arg[u]
    BY <1>2, <2>1
  <2>7. Waiting(g)
    BY <1>1, <1>2, <2>5, <2>6 DEF Waiting, SameCalls
  <2> QED
    BY <1>2, <2>1, <2>3, <2>4, <2>5, <2>6, <2>7 DEF Waits
<1> QED
  BY <1>3, <1>4 DEF WaitLoop

LEMMA LwtCgrpWaitShape ==
  ASSUME BaseInv, NEW g \in Groups, lwt_cgrp_wait(g)
  PROVE  /\ Passes \/ (\E c \in Chans : Returns(g, c)) \/ Waits(g)
         /\ Completes(sched, sched')
<1>1. me # NULL /\ pc[me] = "client" /\ MayWait(g) /\ MayGroup(g)
  BY DEF lwt_cgrp_wait, Client, MayWait
<1>2. CASE UNCHANGED vars
  BY <1>1, <1>2, UnchangedShape
<1>3. CASE WaitLoop(g)
  BY <1>1, <1>3, WaitLoopShape
<1> QED
  BY <1>2, <1>3 DEF lwt_cgrp_wait

LEMMA WaitResumesShape ==
  ASSUME BaseInv, WaitResumes
  PROVE  \E g \in Groups : /\ (\E c \in Chans : Returns(g, c)) \/ Waits(g)
                           /\ Completes(sched, sched')
<1>1. me # NULL /\ pc[me] = "lwt_cgrp_wait" /\ WaitLoop(arg[me])
  BY DEF WaitResumes
<1>2. arg[me] \in Groups /\ MayGroup(arg[me])
  BY <1>1, CurrentIsThread DEF BaseInv, IndInv, BlockedOwnersWait, MayGroup
<1> QED
  BY <1>1, <1>2, WaitLoopShape

-----------------------------------------------------------------------------
(* All steps.                                                               *)

Step ==
  \/ Passes
  \/ \E c \in Chans, v \in Values, k \in SndCalls :
        HandsOff(c, v, k) \/ Buffers(c, v, k) \/ Blocks(c, v, k)
  \/ \E c \in Chans, k \in RcvCalls, x \in Threads \cup {NULL} :
        (\E v \in Values \cup {NULL} : Takes(c, v, k, x)) \/ Sleeps(c, k, x)
  \/ Awakes
  \/ \E c \in Chans, size \in Nat : Opens(c, size)
  \/ \E t \in Threads, x \in Chans, given \in Chans \cup {NULL} : Spawns(t, x, given)
  \/ \E c \in Chans : Drops(c)
  \/ \E g \in Groups, c \in Chans : Adds(g, c) \/ Removes(g, c) \/ Returns(g, c)
  \/ \E g \in Groups : Renews(g) \/ Waits(g)

\* A step loses no thread, unless a channel is made in a block on whose queue
\* senders still wait.
Keeps == FreeQuiet => Completes(sched, sched')

LEMMA ThreadStepShape ==
  ASSUME BaseInv, ThreadStep
  PROVE  Step /\ Keeps
<1>1. ASSUME NEW t \in Threads, NEW x \in Chans, NEW nojoin \in BOOLEAN, lwt_create(t, x, nojoin)
      PROVE  Step /\ Keeps
  <2>1. ~chan[x].live
    BY <1>1 DEF lwt_create, Create
  <2> QED
    BY <1>1, <2>1, LwtCreateShape DEF Step, Keeps, FreeQuiet
<1>2. ASSUME NEW t \in Threads, NEW x \in Chans, NEW c \in Chans, lwt_create_chan(t, x, c)
      PROVE  Step /\ Keeps
  <2>1. ~chan[x].live
    BY <1>2 DEF lwt_create_chan, Create
  <2> QED
    BY <1>2, <2>1, LwtCreateChanShape DEF Step, Keeps, FreeQuiet
<1>3. ASSUME NEW t \in Threads \cup {NULL}, lwt_yield(t)
      PROVE  Step /\ Keeps
  BY <1>3, LwtYieldShape DEF Step, Keeps
<1>4. ASSUME NEW t \in Threads, lwt_join(t)
      PROVE  Step /\ Keeps
  BY <1>4, LwtJoinShape DEF Step, Keeps, RcvCalls
<1>5. ASSUME NEW v \in Data, lwt_die(v)
      PROVE  Step /\ Keeps
  BY <1>5, LwtDieShape DEF Step, Keeps, SndCalls, Values
<1>6. CASE JoinReturns
  BY <1>6, JoinReturnsShape DEF Step, Keeps
<1> QED
  BY <1>1, <1>2, <1>3, <1>4, <1>5, <1>6 DEF ThreadStep

LEMMA ChanStepShape ==
  ASSUME BaseInv, ChanStep
  PROVE  Step /\ Keeps
<1>1. ASSUME NEW c \in Chans, NEW size \in Sizes, lwt_chan(c, size)
      PROVE  Step /\ Keeps
  <2>1. ~chan[c].live /\ size \in Nat
    BY <1>1, LwtAssumption DEF lwt_chan
  <2> QED
    BY <1>1, <2>1, LwtChanShape DEF Step, Keeps, FreeQuiet
<1>2. ASSUME NEW c \in Chans, lwt_chan_deref(c)
      PROVE  Step /\ Keeps
  <2>1. Drops(c) /\ sched' = sched
    BY <1>2, LwtChanDerefShape DEF Drops
  <2> QED
    BY <2>1 DEF Step, Keeps, Completes
<1>3. ASSUME NEW c \in Chans, NEW v \in Data, lwt_snd(c, v)
      PROVE  Step /\ Keeps
  BY <1>3, LwtSndShape DEF Step, Keeps, SndCalls, Values
<1>4. ASSUME NEW c \in Chans, NEW x \in Chans, lwt_snd_chan(c, x)
      PROVE  Step /\ Keeps
  BY <1>4, LwtSndChanShape DEF Step, Keeps, SndCalls, Values
<1>5. ASSUME NEW c \in Chans, lwt_rcv(c) \/ lwt_rcv_chan(c)
      PROVE  Step /\ Keeps
  BY <1>5, LwtRcvShape DEF Step, Keeps
<1>6. CASE SndResumes
  BY <1>6, SndResumesShape DEF Step, Keeps
<1>7. CASE RcvResumes
  BY <1>7, RcvResumesShape DEF Step, Keeps
<1> QED
  BY <1>1, <1>2, <1>3, <1>4, <1>5, <1>6, <1>7 DEF ChanStep

LEMMA GroupStepShape ==
  ASSUME BaseInv, GroupStep
  PROVE  Step /\ Keeps
<1>0. ASSUME sched' = sched  PROVE Completes(sched, sched')
  BY <1>0 DEF Completes
<1>1. ASSUME NEW g \in Groups, lwt_cgrp(g) \/ lwt_cgrp_free(g)
      PROVE  Step /\ Keeps
  <2>1. Passes \/ Renews(g)
    BY <1>1, LwtCgrpShape, LwtCgrpFreeShape
  <2>2. sched' = sched
    BY <1>1 DEF lwt_cgrp, lwt_cgrp_free, vars
  <2> QED
    BY <1>0, <2>1, <2>2 DEF Step, Keeps
<1>2. ASSUME NEW g \in Groups, NEW c \in Chans, lwt_cgrp_add(g, c) \/ lwt_cgrp_rem(g, c)
      PROVE  Step /\ Keeps
  <2>1. Passes \/ Adds(g, c) \/ Removes(g, c)
    BY <1>2, LwtCgrpAddShape, LwtCgrpRemShape
  <2>2. sched' = sched
    BY <1>2 DEF lwt_cgrp_add, lwt_cgrp_rem, vars
  <2> QED
    BY <1>0, <2>1, <2>2 DEF Step, Keeps
<1>3. ASSUME NEW g \in Groups, lwt_cgrp_wait(g)
      PROVE  Step /\ Keeps
  BY <1>3, LwtCgrpWaitShape DEF Step, Keeps
<1>4. CASE WaitResumes
  BY <1>4, WaitResumesShape DEF Step, Keeps
<1> QED
  BY <1>1, <1>2, <1>3, <1>4 DEF GroupStep

LEMMA NextShape ==
  ASSUME BaseInv, Next
  PROVE  Step /\ (FreeQuiet => Completes(sched, sched'))
  BY ThreadStepShape, ChanStepShape, GroupStepShape DEF Next, Keeps

-----------------------------------------------------------------------------
(* What the current thread is, and what it is not.                          *)

LEMMA CurrentFacts ==
  ASSUME BaseInv, me \in Threads
  PROVE  /\ me # NULL /\ IsRunnable(sched, me) /\ sched.state[me] = "LWT_RUNNING"
         /\ \A c \in Chans : ~OnList(sched.queue, c, me)
         /\ \A c \in Chans : ~AsleepOn(me, c)
<1>1. me # NULL
  BY SchedAssumption
<1>2. sched.state[me] = "LWT_RUNNING"
  BY <1>1, CurrentIsThread DEF BaseInv
<1>3. \A c \in Chans : ~OnList(sched.queue, c, me)
  BY <1>2 DEF BaseInv, IndInv, NobodyMisplaced, ListsSound, Placed
<1> QED
  BY <1>1, <1>2, <1>3 DEF IsRunnable, AsleepOn

\* Nobody waits on the group of a channel that has an event.
MembersQuiet ==
  \A t \in Threads, g \in Groups : AsleepInWait(t, g) =>
     \A c \in Chans : chan[c].cgroup = g => ~chan[c].ready

LEMMA QuietMembers ==
  ASSUME BaseInv
  PROVE  MembersQuiet
<1> SUFFICES ASSUME NEW t \in Threads, NEW g \in Groups, AsleepInWait(t, g),
                    NEW c \in Chans, chan[c].cgroup = g
             PROVE  ~chan[c].ready
  BY DEF MembersQuiet
<1>1. PICK i \in DOMAIN chl_list[g] : chl_list[g][i] = c
  BY ListedChannels
<1> QED
  BY <1>1 DEF BaseInv, ChansInv, OwnersAwake

LEMMA QuietOwners ==
  ASSUME IndInv', GroupsInv', WaitersBlocked', MembersQuiet'
  PROVE  OwnersAwake'
<1> SUFFICES ASSUME NEW t \in Threads, NEW g \in Groups, AsleepInWait(t, g)'
             PROVE  /\ grp'[g].live /\ grp'[g].owner = t /\ grp'[g].blocked
                    /\ \A i \in DOMAIN chl_list'[g] : /\ ~chan'[chl_list'[g][i]].ready
                                                      /\ chan'[chl_list'[g][i]].cgroup = g
  BY DEF OwnersAwake
<1>1. pc'[t] = "lwt_cgrp_wait" /\ arg'[t] = g
  BY DEF AsleepInWait
<1>2. grp'[g].live /\ grp'[g].owner = t /\ grp'[g].blocked
  BY <1>1 DEF IndInv, BlockedOwnersWait, WaitersBlocked
<1>3. ASSUME NEW i \in DOMAIN chl_list'[g]
      PROVE  ~chan'[chl_list'[g][i]].ready /\ chan'[chl_list'[g][i]].cgroup = g
  <2>1. chl_list'[g] \in Seq(Chans)
    BY DEF IndInv, TypeOK
  <2>2. PICK c \in Chans : c = chl_list'[g][i]
    BY <2>1
  <2>3. OnList(chl_list', g, c)
    BY <2>1, <2>2 DEF OnList
  <2>4. chan'[c].cgroup = g
    BY <2>3 DEF GroupsInv, GroupsPartition
  <2> QED
    BY <2>2, <2>4 DEF MembersQuiet
<1> QED
  BY <1>2, <1>3

-----------------------------------------------------------------------------
(* The parts of ChansInv that most steps do not touch.                      *)

LEMMA OwnersFrame ==
  ASSUME BaseInv, SameOwners
  PROVE  FreeUnowned' /\ OwnChannels'
<1>1. FreeUnowned'
  BY DEF BaseInv, ChansInv, FreeUnowned, SameOwners
<1>2. OwnChannels'
  <2> SUFFICES ASSUME NEW t \in Threads, thd'[t].chl # NULL
               PROVE  /\ thd'[t].chl \notin made' /\ chan'[thd'[t].chl].live
                      /\ chan'[thd'[t].chl].size = 0
                      /\ thd'[t].parent \in Threads
                      /\ chan'[thd'[t].chl].receiver = thd'[t].parent
                      /\ \A u \in Threads \ {t} : thd'[u].chl # thd'[t].chl
    BY DEF OwnChannels
  <2>1. thd'[t].chl = thd[t].chl /\ thd[t].chl \in Chans
    BY DEF SameOwners, BaseInv, IndInv, TypeOK, ThreadFields
  <2> QED
    BY <2>1 DEF SameOwners, BaseInv, ChansInv, OwnChannels
<1> QED
  BY <1>1, <1>2

LEMMA MembersFrame ==
  ASSUME BaseInv, SameOwners, SameMembers
  PROVE  MembersOwned'
<1> SUFFICES ASSUME NEW c \in Chans, chan'[c].cgroup # NULL
             PROVE  /\ c \in made' /\ chan'[c].receiver \in Threads
                    /\ chan'[c].receiver = grp'[chan'[c].cgroup].owner
  BY DEF MembersOwned
<1> QED
  BY DEF SameOwners, SameMembers, BaseInv, ChansInv, MembersOwned

LEMMA WaitersFrame ==
  ASSUME BaseInv, grp' = grp, SameCalls, pc'[me] # "lwt_cgrp_wait"
  PROVE  WaitersBlocked'
<1> SUFFICES ASSUME NEW t \in Threads, pc'[t] = "lwt_cgrp_wait"
             PROVE  grp'[arg'[t]].blocked
  BY DEF WaitersBlocked
<1> QED
  BY DEF SameCalls, BaseInv, ChansInv, WaitersBlocked

LEMMA ReceiversOwnFrame ==
  ASSUME BaseInv, SameOwners, SameCalls, SameRcving({}), pc'[me] \notin RcvCalls
  PROVE  ReceiversOwn'
<1> SUFFICES ASSUME NEW t \in Threads, InRcv(t)'
             PROVE  \E c \in Chans : thd'[t].now_rcving = c /\ chan'[c].receiver = t
  BY DEF ReceiversOwn
<1>1. t # me /\ InRcv(t)
  BY DEF InRcv, RcvCalls, SameCalls
<1>2. PICK c \in Chans : thd[t].now_rcving = c /\ chan[c].receiver = t
  BY <1>1 DEF BaseInv, ChansInv, ReceiversOwn
<1> QED
  BY <1>2 DEF SameRcving, SameOwners

\* A thread other than the current one that sleeps after the step slept before
\* it, and was not resumed.
LEMMA SleptBefore ==
  ASSUME NEW W, OthersStand(W), NEW u \in Threads \ {me}, sched'.state[u] = "LWT_BLOCKED"
  PROVE  u \notin W /\ sched.state[u] = "LWT_BLOCKED" /\ sched'.block_for[u] = sched.block_for[u]
BY DEF OthersStand, Stands, IsRunnable

LEMMA SleepersFrame ==
  ASSUME BaseInv, SameCalls, NEW W, OthersStand(W),
         sched'.state[me] = "LWT_BLOCKED" =>
           IF sched'.block_for[me] = "BLOCKED_SENDING"
             THEN pc'[me] \in SndCalls ELSE pc'[me] \in RcvCalls \cup {"lwt_cgrp_wait"}
  PROVE  SleepersInside'
<1> SUFFICES ASSUME NEW t \in Threads, sched'.state[t] = "LWT_BLOCKED"
             PROVE  IF sched'.block_for[t] = "BLOCKED_SENDING"
                      THEN pc'[t] \in {"lwt_snd", "lwt_snd_chan", "lwt_die"}
                      ELSE pc'[t] \in {"lwt_rcv", "lwt_rcv_chan", "lwt_join", "lwt_cgrp_wait"}
  BY DEF SleepersInside, Sending, InRcv
<1>1. CASE t = me
  BY <1>1 DEF SndCalls, RcvCalls
<1>2. CASE t # me
  <2>1. sched.state[t] = "LWT_BLOCKED" /\ sched'.block_for[t] = sched.block_for[t]
    BY <1>2, SleptBefore
  <2> QED
    BY <1>2, <2>1 DEF SameCalls, BaseInv, ChansInv, SleepersInside, Sending, InRcv
<1> QED
  BY <1>1, <1>2

\* Nobody joins a sender queue, and nobody loses a reference.
LEMMA SendersFrame ==
  ASSUME BaseInv, IndInv', me \in Threads, SameCalls,
         \A t \in Threads : thd'[t].chl = thd[t].chl,
         \A c \in Chans, t \in Threads \ {me} :
            OnList(sched'.queue, c, t) => OnList(sched.queue, c, t) /\ refs'[c][t] >= refs[c][t],
         \A c \in Chans : ~OnList(sched'.queue, c, me)
  PROVE  SendersHold'
<1> SUFFICES ASSUME NEW c \in Chans, NEW t \in Threads, OnList(sched'.queue, c, t)
             PROVE  /\ Sending(t)'
                    /\ IF pc'[t] = "lwt_die" THEN c = thd'[t].chl ELSE refs'[c][t] > 0
  BY DEF SendersHold
<1>1. t # me /\ OnList(sched.queue, c, t) /\ refs'[c][t] >= refs[c][t]
  OBVIOUS
<1>2. Sending(t) /\ IF pc[t] = "lwt_die" THEN c = thd[t].chl ELSE refs[c][t] > 0
  BY <1>1 DEF BaseInv, ChansInv, SendersHold
<1>3. pc'[t] = pc[t] /\ thd'[t].chl = thd[t].chl /\ refs[c][t] \in Int
  BY <1>1 DEF SameCalls, BaseInv, IndInv, TypeOK
<1>4. refs'[c][t] \in Int
  BY DEF IndInv, TypeOK
<1>5. refs[c][t] > 0 => refs'[c][t] > 0
  BY <1>1, <1>3, <1>4
<1> QED
  BY <1>2, <1>3, <1>5 DEF Sending

LEMMA SendersStay ==
  ASSUME BaseInv, IndInv', me \in Threads, SameCalls, SameOwners, SameQueues({}), refs' = refs
  PROVE  SendersHold'
<1>1. \A c \in Chans : \A t : OnList(sched'.queue, c, t) <=> OnList(sched.queue, c, t)
  BY DEF SameQueues, OnList
<1>2. \A c \in Chans, t \in Threads : refs'[c][t] >= refs[c][t]
  BY DEF BaseInv, IndInv, TypeOK
<1>3. \A c \in Chans : ~OnList(sched'.queue, c, me)
  BY <1>1, CurrentFacts
<1>4. \A t \in Threads : thd'[t].chl = thd[t].chl
  BY DEF SameOwners
<1> QED
  BY <1>1, <1>2, <1>3, <1>4, SendersFrame

LEMMA AwakeFrame ==
  ASSUME BaseInv, SameOwners, SameCalls, SameRcving({}), NEW W, OthersStand(W),
         pc'[me] \notin RcvCalls,
         \A u \in Threads \ {me}, c \in Chans : u \notin W /\ AsleepOn(u, c) =>
            chan'[c].buffer = chan[c].buffer /\ sched'.queue[c] = sched.queue[c]
  PROVE  ReceiversAwake'
<1> SUFFICES ASSUME NEW t \in Threads, NEW c \in Chans, AsleepOn(t, c)'
             PROVE  /\ chan'[c].live /\ chan'[c].receiver = t
                    /\ sched'.block_for[t] = "BLOCKED_RECEIVING"
                    /\ chan'[c].buffer = << >> /\ sched'.queue[c] = << >>
  BY DEF ReceiversAwake
<1>1. /\ sched'.state[t] = "LWT_BLOCKED" /\ pc'[t] \in RcvCalls /\ thd'[t].now_rcving = c
  BY DEF AsleepOn, InRcv, RcvCalls
<1>2. t # me
  BY <1>1
<1>3. /\ t \notin W /\ sched.state[t] = "LWT_BLOCKED" /\ sched'.block_for[t] = sched.block_for[t]
  BY <1>1, <1>2, SleptBefore
<1>4. AsleepOn(t, c)
  BY <1>1, <1>2, <1>3 DEF AsleepOn, InRcv, RcvCalls, SameCalls, SameRcving
<1> QED
  BY <1>2, <1>3, <1>4 DEF SameOwners, BaseInv, ChansInv, ReceiversAwake

LEMMA QuietFrame ==
  ASSUME BaseInv, SameMembers, SameCalls, NEW W, OthersStand(W), pc'[me] # "lwt_cgrp_wait",
         \A u \in Threads \ {me}, g \in Groups, c \in Chans :
            u \notin W /\ AsleepInWait(u, g) /\ chan[c].cgroup = g =>
               (chan'[c].ready => chan[c].ready)
  PROVE  MembersQuiet'
<1> SUFFICES ASSUME NEW t \in Threads, NEW g \in Groups, AsleepInWait(t, g)',
                    NEW c \in Chans, chan'[c].cgroup = g
             PROVE  ~chan'[c].ready
  BY DEF MembersQuiet
<1>1. sched'.state[t] = "LWT_BLOCKED" /\ pc'[t] = "lwt_cgrp_wait" /\ arg'[t] = g
  BY DEF AsleepInWait
<1>2. t # me
  BY <1>1
<1>3. t \notin W /\ sched.state[t] = "LWT_BLOCKED"
  BY <1>1, <1>2, SleptBefore
<1>4. AsleepInWait(t, g) /\ chan[c].cgroup = g
  BY <1>1, <1>2, <1>3 DEF AsleepInWait, SameCalls, SameMembers
<1> QED
  BY <1>2, <1>3, <1>4, QuietMembers DEF MembersQuiet

LEMMA KeptFrame ==
  ASSUME BaseInv, SameOwners, SameMembers,
         \A u \in Threads : event'[u] # NULL =>
            event'[u] = event[u] /\ (chan[event[u]].ready => chan'[event[u]].ready)
  PROVE  EventsKept'
<1> SUFFICES ASSUME NEW t \in Threads, event'[t] # NULL
             PROVE  /\ chan'[event'[t]].receiver = t /\ chan'[event'[t]].cgroup # NULL
                    /\ chan'[event'[t]].ready
  BY DEF EventsKept
<1>1. event'[t] = event[t] /\ event[t] \in Chans
  BY DEF BaseInv, IndInv, TypeOK
<1> QED
  BY <1>1 DEF SameOwners, SameMembers, BaseInv, ChansInv, EventsKept

LEMMA ShownFrame ==
  ASSUME BaseInv, SameOwners, NEW C, SameContents(C), SameQueues(C),
         \A c \in C : /\ Len(chan'[c].buffer) <= chan'[c].size
                      /\ sched'.queue[c] # << >> => Len(chan'[c].buffer) = chan'[c].size
                      /\ chan'[c].buffer # << >> \/ sched'.queue[c] # << >> => chan'[c].ready
  PROVE  EventsShown'
<1> SUFFICES ASSUME NEW c \in Chans
             PROVE  /\ Len(chan'[c].buffer) <= chan'[c].size
                    /\ sched'.queue[c] # << >> => Len(chan'[c].buffer) = chan'[c].size
                    /\ chan'[c].buffer # << >> \/ sched'.queue[c] # << >> => chan'[c].ready
  BY DEF EventsShown, BufferFull
<1>1. CASE c \in C
  BY <1>1
<1>2. CASE c \notin C
  BY <1>2 DEF SameContents, SameQueues, SameOwners, BaseInv, ChansInv, EventsShown, BufferFull
<1> QED
  BY <1>1, <1>2

-----------------------------------------------------------------------------
(* Sends keep ChansInv.                                                     *)

\* The parts every send keeps.
LEMMA SendKeepsFrame ==
  ASSUME BaseInv, IndInv', me \in Threads, SendFrame, NEW W, OthersStand(W),
         pc'[me] = "client" \/ pc'[me] \in SndCalls,
         sched'.state[me] = "LWT_BLOCKED" =>
           sched'.block_for[me] = "BLOCKED_SENDING" /\ pc'[me] \in SndCalls
  PROVE  FreeUnowned' /\ OwnChannels' /\ MembersOwned' /\ WaitersBlocked' /\ ReceiversOwn'
         /\ SleepersInside'
<1>1. pc'[me] \notin RcvCalls /\ pc'[me] # "lwt_cgrp_wait"
  BY DEF SndCalls, RcvCalls
<1>2. SameOwners /\ SameMembers /\ SameRcving({}) /\ SameCalls /\ grp' = grp
  BY DEF SendFrame, SameMembers
<1> QED
  BY <1>1, <1>2, OwnersFrame, MembersFrame, WaitersFrame, ReceiversOwnFrame, SleepersFrame

LEMMA PassesChans ==
  ASSUME BaseInv, IndInv', GroupsInv', Passes
  PROVE  ChansInv'
<1>1. /\ me \in Threads /\ SendFrame /\ OthersStand({}) /\ pc'[me] = "client"
      /\ sched'.state[me] # "LWT_BLOCKED"
      /\ SameContents({}) /\ SameQueues({}) /\ UNCHANGED event
      /\ SameOwners /\ SameMembers /\ SameRcving({}) /\ SameCalls /\ SameRefs
  BY DEF Passes, SendFrame, Leaves, IsRunnable
<1>2. FreeUnowned' /\ OwnChannels' /\ MembersOwned' /\ WaitersBlocked' /\ ReceiversOwn'
      /\ SleepersInside'
  BY <1>1, SendKeepsFrame
<1>3. SendersHold'
  BY <1>1, SendersStay DEF SameRefs
<1>4. ReceiversAwake'
  BY <1>1, AwakeFrame DEF SameContents, SameQueues, RcvCalls
<1>5. MembersQuiet'
  BY <1>1, QuietFrame DEF SameContents
<1>6. EventsShown'
  BY <1>1, ShownFrame
<1>7. EventsKept'
  BY <1>1, KeptFrame DEF SameContents, BaseInv, IndInv, TypeOK
<1> QED
  BY <1>2, <1>3, <1>4, <1>5, <1>6, <1>7, QuietOwners DEF ChansInv

LEMMA HandsOffChans ==
  ASSUME BaseInv, IndInv', GroupsInv', NEW c, NEW v, NEW k, HandsOff(c, v, k)
  PROVE  ChansInv'
<1> DEFINE r == chan[c].receiver
<1>1. /\ me \in Threads /\ SendFrame /\ OthersStand({r}) /\ pc'[me] = "client"
      /\ sched'.state[me] # "LWT_BLOCKED"
      /\ SameContents({}) /\ SameQueues({}) /\ UNCHANGED event
      /\ SameOwners /\ SameMembers /\ SameRcving({}) /\ SameCalls /\ SameRefs
  BY DEF HandsOff, Sender, SendFrame, Leaves, IsRunnable
<1>2. FreeUnowned' /\ OwnChannels' /\ MembersOwned' /\ WaitersBlocked' /\ ReceiversOwn'
      /\ SleepersInside'
  BY <1>1, SendKeepsFrame
<1>3. SendersHold'
  BY <1>1, SendersStay DEF SameRefs
<1>4. ReceiversAwake'
  BY <1>1, AwakeFrame DEF SameContents, SameQueues, RcvCalls
<1>5. MembersQuiet'
  BY <1>1, QuietFrame DEF SameContents
<1>6. EventsShown'
  BY <1>1, ShownFrame
<1>7. EventsKept'
  BY <1>1, KeptFrame DEF SameContents, BaseInv, IndInv, TypeOK
<1> QED
  BY <1>2, <1>3, <1>4, <1>5, <1>6, <1>7, QuietOwners DEF ChansInv

\* Nobody sleeps on a channel whose receiver does not wait for it, nor in
\* lwt_cgrp_wait on its group but a thread the send wakes.
LEMMA NoSleepers ==
  ASSUME BaseInv, NEW c \in Chans
  PROVE  /\ ~ReceiverWaits(c) => \A u \in Threads : ~AsleepOn(u, c)
         /\ \A u \in Threads, g \in Groups : AsleepInWait(u, g) /\ chan[c].cgroup = g => u \in Woken(c)
<1>1. ASSUME NEW u \in Threads, AsleepOn(u, c)
      PROVE  ReceiverWaits(c)
  BY <1>1 DEF AsleepOn, ReceiverWaits, BaseInv, ChansInv, ReceiversAwake
<1>2. ASSUME NEW u \in Threads, NEW g \in Groups, AsleepInWait(u, g), chan[c].cgroup = g
      PROVE  u \in Woken(c)
  <2>1. grp[g].owner = u /\ grp[g].blocked /\ g # NULL
    BY <1>2, LwtAssumption DEF BaseInv, ChansInv, OwnersAwake
  <2> QED
    BY <1>2, <2>1 DEF Woken
<1> QED
  BY <1>1, <1>2

LEMMA BuffersChans ==
  ASSUME BaseInv, IndInv', GroupsInv', NEW c, NEW v, NEW k, Buffers(c, v, k)
  PROVE  ChansInv'
<1>1. /\ me \in Threads /\ SendFrame /\ OthersStand(Woken(c)) /\ pc'[me] = "client"
      /\ sched'.state[me] # "LWT_BLOCKED"
      /\ c \in Chans /\ SameContents({c}) /\ SameQueues({}) /\ UNCHANGED event
      /\ SameOwners /\ SameMembers /\ SameRcving({}) /\ SameCalls /\ SameRefs
      /\ ~ReceiverWaits(c) /\ ~BufferFull(c)
      /\ chan'[c].buffer = Append(chan[c].buffer, v) /\ chan'[c].ready
  BY DEF Buffers, Sender, SendFrame, Leaves, IsRunnable
<1>2. FreeUnowned' /\ OwnChannels' /\ MembersOwned' /\ WaitersBlocked' /\ ReceiversOwn'
      /\ SleepersInside'
  BY <1>1, SendKeepsFrame
<1>3. SendersHold'
  BY <1>1, SendersStay DEF SameRefs
<1>4. \A u \in Threads : ~AsleepOn(u, c)
  BY <1>1, NoSleepers
<1>5. ReceiversAwake'
  BY <1>1, <1>4, AwakeFrame DEF SameContents, SameQueues, RcvCalls
<1>6. MembersQuiet'
  BY <1>1, NoSleepers, QuietFrame DEF SameContents
<1>7. EventsShown'
  <2>1. chan[c].buffer \in Seq(Values \cup {NULL}) /\ chan[c].size \in Nat
    BY <1>1 DEF BaseInv, IndInv, TypeOK, Channel
  <2>2. Len(chan'[c].buffer) = Len(chan[c].buffer) + 1 /\ Len(chan[c].buffer) \in Nat
    BY <1>1, <2>1
  <2>3. Len(chan[c].buffer) <= chan[c].size /\ Len(chan[c].buffer) # chan[c].size
        /\ sched.queue[c] = << >>
    BY <1>1 DEF BaseInv, ChansInv, EventsShown, BufferFull
  <2>4. Len(chan'[c].buffer) <= chan'[c].size /\ sched'.queue[c] = << >>
    BY <1>1, <2>1, <2>2, <2>3 DEF SameOwners, SameQueues
  <2>5. SameQueues({c})
    BY <1>1 DEF SameQueues
  <2> QED
    BY <1>1, <2>4, <2>5, ShownFrame
<1>8. EventsKept'
  BY <1>1, KeptFrame DEF SameContents, BaseInv, IndInv, TypeOK
<1> QED
  BY <1>2, <1>3, <1>5, <1>6, <1>7, <1>8, QuietOwners DEF ChansInv

LEMMA BlocksChans ==
  ASSUME BaseInv, IndInv', GroupsInv', NEW c, NEW v, NEW k, Blocks(c, v, k)
  PROVE  ChansInv'
<1>1. /\ me \in Threads /\ SendFrame /\ OthersStand(Woken(c)) /\ pc'[me] = k /\ k \in SndCalls
      /\ sched'.block_for[me] = "BLOCKED_SENDING" /\ Sender(c, v, k)
      /\ c \in Chans /\ SameContents({c}) /\ SameQueues({c}) /\ UNCHANGED event
      /\ SameOwners /\ SameMembers /\ SameRcving({}) /\ SameCalls /\ SameRefs
      /\ ~ReceiverWaits(c) /\ BufferFull(c)
      /\ chan'[c].buffer = chan[c].buffer /\ chan'[c].ready
      /\ sched'.queue[c] = Append(sched.queue[c], me)
  BY DEF Blocks, Sender, SendFrame
<1>2. FreeUnowned' /\ OwnChannels' /\ MembersOwned' /\ WaitersBlocked' /\ ReceiversOwn'
      /\ SleepersInside'
  BY <1>1, SendKeepsFrame
<1>3. SendersHold'
  <2> SUFFICES ASSUME NEW d \in Chans, NEW t \in Threads, OnList(sched'.queue, d, t)
               PROVE  /\ pc'[t] \in SndCalls
                      /\ IF pc'[t] = "lwt_die" THEN d = thd'[t].chl ELSE refs'[d][t] > 0
    BY DEF SendersHold, Sending, SndCalls
  <2>1. OnList(sched.queue, d, t) \/ (d = c /\ t = me)
    <3>1. CASE d = c
      <4>1. sched.queue[c] \in Seq(Threads)
        BY <1>1 DEF BaseInv, IndInv, TypeOK, Sched, Heads
      <4>2. /\ Len(Append(sched.queue[c], me)) = Len(sched.queue[c]) + 1
            /\ \A j \in 1 .. Len(sched.queue[c]) :
                  Append(sched.queue[c], me)[j] = sched.queue[c][j]
            /\ Append(sched.queue[c], me)[Len(sched.queue[c]) + 1] = me
            /\ Len(sched.queue[c]) \in Nat
        BY <4>1, AppendProperties, LenProperties
      <4>3. PICK i \in 1 .. Len(sched'.queue[c]) : sched'.queue[c][i] = t
        BY <3>1 DEF OnList
      <4> QED
        BY <1>1, <3>1, <4>2, <4>3 DEF OnList
    <3>2. CASE d # c
      BY <1>1, <3>2 DEF OnList, SameQueues
    <3> QED
      BY <3>1, <3>2
  <2>2. CASE d = c /\ t = me
    BY <1>1, <2>2 DEF Sender, SameRefs, SameOwners
  <2>3. CASE OnList(sched.queue, d, t)
    <3>1. t # me
      BY <1>1, <2>3, CurrentFacts
    <3>2. Sending(t) /\ IF pc[t] = "lwt_die" THEN d = thd[t].chl ELSE refs[d][t] > 0
      BY <2>3 DEF BaseInv, ChansInv, SendersHold
    <3> QED
      BY <1>1, <3>1, <3>2 DEF Sending, SndCalls, SameCalls, SameRefs, SameOwners
  <2> QED
    BY <2>1, <2>2, <2>3
<1>4. \A u \in Threads : ~AsleepOn(u, c)
  BY <1>1, NoSleepers
<1>5. ReceiversAwake'
  BY <1>1, <1>4, AwakeFrame DEF SameContents, SameQueues, RcvCalls, SndCalls
<1>6. MembersQuiet'
  BY <1>1, NoSleepers, QuietFrame DEF SameContents, SndCalls
<1>7. EventsShown'
  BY <1>1, ShownFrame DEF SameOwners, BufferFull, BaseInv, ChansInv, EventsShown
<1>8. EventsKept'
  BY <1>1, KeptFrame DEF SameContents, BaseInv, IndInv, TypeOK
<1> QED
  BY <1>2, <1>3, <1>5, <1>6, <1>7, <1>8, QuietOwners DEF ChansInv

-----------------------------------------------------------------------------
(* Receives keep ChansInv.                                                  *)

LEMMA TailOnList ==
  ASSUME BaseInv, NEW c \in Chans, sched.queue[c] # << >>, sched'.queue[c] = Tail(sched.queue[c])
  PROVE  \A t : OnList(sched'.queue, c, t) => OnList(sched.queue, c, t)
<1>1. sched.queue[c] \in Seq(Threads)
  BY DEF BaseInv, IndInv, TypeOK, Sched, Heads
<1>2. /\ Len(Tail(sched.queue[c])) = Len(sched.queue[c]) - 1 /\ Len(sched.queue[c]) \in Nat
      /\ \A i \in 1 .. Len(sched.queue[c]) - 1 : Tail(sched.queue[c])[i] = sched.queue[c][i + 1]
  BY <1>1
<1> SUFFICES ASSUME NEW t, NEW i \in 1 .. Len(sched'.queue[c]), sched'.queue[c][i] = t
             PROVE  OnList(sched.queue, c, t)
  BY DEF OnList
<1>3. i + 1 \in 1 .. Len(sched.queue[c]) /\ sched.queue[c][i + 1] = t
  BY <1>2
<1> QED
  BY <1>3 DEF OnList

\* What a call that returns from lwt_rcv keeps, whether it slept or not.
LEMMA DeliveredFrame ==
  ASSUME BaseInv, IndInv', me \in Threads, SameOwners, SameMembers, SameCalls, SameRcving({}),
         NEW c, NEW v, NEW k, Delivers(c, v, k), NEW W, OthersStand(W),
         \A d \in Chans : \A t : OnList(sched'.queue, d, t) => OnList(sched.queue, d, t)
  PROVE  FreeUnowned' /\ OwnChannels' /\ MembersOwned' /\ WaitersBlocked' /\ ReceiversOwn'
         /\ SleepersInside' /\ SendersHold'
<1>1. /\ pc'[me] \notin RcvCalls /\ pc'[me] # "lwt_cgrp_wait" /\ grp' = grp
      /\ sched'.state[me] # "LWT_BLOCKED"
  BY DEF Delivers, RcvCalls, IsRunnable, SameMembers
<1>2. SendersHold'
  <2>1. \A d \in Chans, t \in Threads : refs'[d][t] >= refs[d][t]
    <3> SUFFICES ASSUME NEW d \in Chans, NEW t \in Threads
                 PROVE  refs'[d][t] >= refs[d][t]
      OBVIOUS
    <3>1. PICK n \in {0, 1} : refs'[d][t] = refs[d][t] + n
      BY DEF Delivers, Counts
    <3>2. refs[d][t] \in Int
      BY DEF BaseInv, IndInv, TypeOK
    <3> QED
      BY <3>1, <3>2
  <2>2. \A d \in Chans : ~OnList(sched'.queue, d, me)
    BY CurrentFacts
  <2>3. \A t \in Threads : thd'[t].chl = thd[t].chl
    BY DEF SameOwners
  <2> QED
    BY <2>1, <2>2, <2>3, SendersFrame
<1> QED
  BY <1>1, <1>2, OwnersFrame, MembersFrame, WaitersFrame, ReceiversOwnFrame, SleepersFrame

\* What lwt_rcv leaves of a channel.
LEMMA TakenShape ==
  ASSUME BaseInv, NEW c, NEW v, NEW k, NEW x, Takes(c, v, k, x)
  PROVE  /\ Len(chan'[c].buffer) <= chan[c].size
         /\ sched'.queue[c] # << >> => Len(chan'[c].buffer) = chan[c].size
         /\ chan'[c].buffer # << >> \/ sched'.queue[c] # << >> => chan'[c].ready
         /\ chan'[c].ready => chan'[c].buffer # << >> \/ sched'.queue[c] # << >>
<1> DEFINE b == chan[c].buffer
           q == sched.queue[c]
<1>1. /\ c \in Chans /\ (FromBuffer(c, v) \/ FromSender(c, v))
      /\ sched'.queue[c] = IF q = << >> THEN << >> ELSE Tail(q)
  BY DEF Takes, Receiver, Unblocks
<1>2. b \in Seq(Values \cup {NULL}) /\ q \in Seq(Threads) /\ chan[c].size \in Nat
  <2>1. c \in Heads /\ chan[c] \in Channel /\ sched.queue \in [Heads -> Seq(Threads)]
    BY <1>1 DEF BaseInv, IndInv, TypeOK, Sched, Heads
  <2> QED
    BY <2>1 DEF Channel
<1>3. Len(b) <= chan[c].size /\ (q # << >> => Len(b) = chan[c].size)
  BY <1>1 DEF BaseInv, ChansInv, EventsShown, BufferFull
<1>4. CASE FromBuffer(c, v)
  <2>1. b # << >> /\ chan'[c].buffer = Refilled(c) /\ chan'[c].ready = (Refilled(c) # << >>)
    BY <1>4 DEF FromBuffer
  <2>2. CASE q = << >>
    <3>1. Refilled(c) = Tail(b)
      BY <2>2 DEF Refilled
    <3>2. Len(Tail(b)) = Len(b) - 1 /\ Len(b) \in Nat
      BY <1>2, <2>1
    <3>3. Len(Refilled(c)) <= chan[c].size /\ sched'.queue[c] = << >>
      BY <1>1, <1>2, <1>3, <2>2, <3>1, <3>2
    <3> QED
      BY <2>1, <3>3
  <2>3. CASE q # << >>
    <3> DEFINE m == thd[Head(q)].message_data
    <3>1. Refilled(c) = Append(Tail(b), m)
      BY <2>3 DEF Refilled
    <3>2. Tail(b) \in Seq(Values \cup {NULL}) /\ Len(Tail(b)) = Len(b) - 1 /\ Len(b) \in Nat
      BY <1>2, <2>1
    <3> HIDE DEF m
    <3>3. Len(Refilled(c)) = Len(b) /\ Refilled(c) # << >>
      BY <3>1, <3>2
    <3> QED
      BY <1>3, <2>1, <2>3, <3>3
  <2> QED
    BY <2>2, <2>3
<1>5. CASE FromSender(c, v)
  <2>1. b = << >> /\ q # << >> /\ chan'[c].buffer = << >> /\ chan'[c].ready = (Tail(q) # << >>)
    BY <1>5 DEF FromSender, SendersLeft
  <2>2. Len(b) = 0 /\ Len(chan'[c].buffer) = 0
    BY <2>1
  <2> QED
    BY <1>1, <1>2, <1>3, <2>1, <2>2
<1> QED
  BY <1>1, <1>4, <1>5

LEMMA TakesChans ==
  ASSUME BaseInv, IndInv', GroupsInv', NEW c, NEW v, NEW k, NEW x, Takes(c, v, k, x)
  PROVE  ChansInv'
<1>1. /\ me \in Threads /\ c \in Chans /\ chan[c].receiver = me
      /\ SameOwners /\ SameMembers /\ SameCalls /\ SameRcving({}) /\ Delivers(c, v, k)
      /\ SameContents({c}) /\ SameQueues({c}) /\ Receiver(c, k, x) /\ Unblocks(c)
      /\ pc'[me] \in {"client", "lwt_join_yield"}
  BY DEF Takes, Receiver, Delivers
<1>2. PICK W : OthersStand(W)
  BY <1>1 DEF Unblocks
<1>3. \A d \in Chans : \A t : OnList(sched'.queue, d, t) => OnList(sched.queue, d, t)
  <2>1. ASSUME NEW d \in Chans \ {c}, NEW t, OnList(sched'.queue, d, t)
        PROVE  OnList(sched.queue, d, t)
    BY <1>1, <2>1 DEF SameQueues, OnList
  <2>2. ASSUME NEW t, OnList(sched'.queue, c, t)
        PROVE  OnList(sched.queue, c, t)
    BY <1>1, <2>2, TailOnList DEF Unblocks, OnList
  <2> QED
    BY <2>1, <2>2
<1>4. FreeUnowned' /\ OwnChannels' /\ MembersOwned' /\ WaitersBlocked' /\ ReceiversOwn'
      /\ SleepersInside' /\ SendersHold'
  BY <1>1, <1>2, <1>3, DeliveredFrame
<1>5. \A u \in Threads \ {me} : ~AsleepOn(u, c)
  BY <1>1 DEF BaseInv, ChansInv, ReceiversAwake
<1>6. ReceiversAwake'
  BY <1>1, <1>2, <1>5, AwakeFrame DEF SameContents, SameQueues, RcvCalls
<1>7. MembersQuiet'
  <2>1. \A u \in Threads \ {me}, g \in Groups : AsleepInWait(u, g) => chan[c].cgroup # g
    BY <1>1, LwtAssumption DEF BaseInv, ChansInv, OwnersAwake, MembersOwned
  <2> QED
    BY <1>1, <1>2, <2>1, QuietFrame DEF SameContents
<1>8. EventsShown'
  BY <1>1, TakenShape, ShownFrame DEF SameOwners
<1>9. EventsKept'
  <2> SUFFICES ASSUME NEW u \in Threads, event'[u] # NULL
               PROVE  event'[u] = event[u] /\ (chan[event[u]].ready => chan'[event[u]].ready)
    BY <1>1, KeptFrame
  <2>1. event'[u] = event[u] /\ event[u] # c /\ event[u] \in Chans
    <3>1. CASE u = me
      BY <1>1, <3>1 DEF Receiver, BaseInv, IndInv, TypeOK
    <3>2. CASE u # me
      BY <1>1, <3>2 DEF Receiver, BaseInv, IndInv, TypeOK, ChansInv, EventsKept
    <3> QED
      BY <3>1, <3>2
  <2> QED
    BY <1>1, <2>1 DEF SameContents
<1> QED
  BY <1>4, <1>6, <1>7, <1>8, <1>9, QuietOwners DEF ChansInv

LEMMA AwakesChans ==
  ASSUME BaseInv, IndInv', GroupsInv', Awakes
  PROVE  ChansInv'
<1>1. /\ me \in Threads /\ SameOwners /\ SameMembers /\ SameCalls /\ SameRcving({})
      /\ Delivers(thd[me].now_rcving, thd[me].message_data, pc[me])
      /\ SameContents({}) /\ SameQueues({}) /\ OthersStand({}) /\ UNCHANGED event
      /\ pc'[me] \in {"client", "lwt_join_yield"}
  BY DEF Awakes, Delivers
<1>2. \A d \in Chans : \A t : OnList(sched'.queue, d, t) => OnList(sched.queue, d, t)
  BY <1>1 DEF SameQueues, OnList
<1>3. FreeUnowned' /\ OwnChannels' /\ MembersOwned' /\ WaitersBlocked' /\ ReceiversOwn'
      /\ SleepersInside' /\ SendersHold'
  BY <1>1, <1>2, DeliveredFrame
<1>4. ReceiversAwake'
  BY <1>1, AwakeFrame DEF SameContents, SameQueues, RcvCalls
<1>5. MembersQuiet'
  BY <1>1, QuietFrame DEF SameContents
<1>6. EventsShown'
  BY <1>1, ShownFrame
<1>7. EventsKept'
  BY <1>1, KeptFrame DEF SameContents, BaseInv, IndInv, TypeOK
<1> QED
  BY <1>3, <1>4, <1>5, <1>6, <1>7, QuietOwners DEF ChansInv

LEMMA SleepsChans ==
  ASSUME BaseInv, IndInv', GroupsInv', NEW c, NEW k \in RcvCalls, NEW x, Sleeps(c, k, x)
  PROVE  ChansInv'
<1>1. /\ me \in Threads /\ c \in Chans /\ chan[c].receiver = me
      /\ chan[c].buffer = << >> /\ sched.queue[c] = << >>
      /\ SameOwners /\ SameMembers /\ SameCalls /\ SameRcving({me}) /\ SameRefs
      /\ SameContents({}) /\ SameQueues({}) /\ OthersStand({}) /\ Receiver(c, k, x)
      /\ pc'[me] = k /\ thd'[me].now_rcving = c
      /\ sched'.state[me] = "LWT_BLOCKED" /\ sched'.block_for[me] = "BLOCKED_RECEIVING"
  BY DEF Sleeps, Receiver
<1>2. FreeUnowned' /\ OwnChannels' /\ MembersOwned' /\ SendersHold'
  BY <1>1, OwnersFrame, MembersFrame, SendersStay DEF SameRefs
<1>3. WaitersBlocked'
  BY <1>1, WaitersFrame DEF RcvCalls, SameMembers
<1>4. SleepersInside'
  BY <1>1, SleepersFrame
<1>5. ReceiversOwn'
  <2> SUFFICES ASSUME NEW t \in Threads, pc'[t] \in RcvCalls
               PROVE  \E d \in Chans : thd'[t].now_rcving = d /\ chan'[d].receiver = t
    BY DEF ReceiversOwn, InRcv, RcvCalls
  <2>1. CASE t = me
    BY <1>1, <2>1 DEF SameOwners
  <2>2. CASE t # me
    <3>1. PICK d \in Chans : thd[t].now_rcving = d /\ chan[d].receiver = t
      BY <1>1, <2>2 DEF SameCalls, BaseInv, ChansInv, ReceiversOwn, InRcv, RcvCalls
    <3> QED
      BY <1>1, <2>2, <3>1 DEF SameRcving, SameOwners
  <2> QED
    BY <2>1, <2>2
<1>6. ReceiversAwake'
  <2> SUFFICES ASSUME NEW t \in Threads, NEW d \in Chans, sched'.state[t] = "LWT_BLOCKED",
                      pc'[t] \in RcvCalls, thd'[t].now_rcving = d
               PROVE  /\ chan'[d].live /\ chan'[d].receiver = t
                      /\ sched'.block_for[t] = "BLOCKED_RECEIVING"
                      /\ chan'[d].buffer = << >> /\ sched'.queue[d] = << >>
    BY DEF ReceiversAwake, AsleepOn, InRcv, RcvCalls
  <2>1. CASE t = me
    <3>1. d = c /\ chan[c].live
      BY <1>1, <2>1, SchedAssumption DEF BaseInv, ChansInv, FreeUnowned
    <3> QED
      BY <1>1, <2>1, <3>1 DEF SameOwners, SameContents, SameQueues
  <2>2. CASE t # me
    <3>1. sched.state[t] = "LWT_BLOCKED" /\ sched'.block_for[t] = sched.block_for[t]
      BY <1>1, <2>2, SleptBefore
    <3>2. AsleepOn(t, d)
      BY <1>1, <2>2, <3>1 DEF AsleepOn, InRcv, RcvCalls, SameCalls, SameRcving
    <3> QED
      BY <1>1, <3>1, <3>2
         DEF SameOwners, SameContents, SameQueues, BaseInv, ChansInv, ReceiversAwake
  <2> QED
    BY <2>1, <2>2
<1>7. MembersQuiet'
  BY <1>1, QuietFrame DEF SameContents, RcvCalls
<1>8. EventsShown'
  BY <1>1, ShownFrame
<1>9. EventsKept'
  BY <1>1, KeptFrame DEF Receiver, SameContents, BaseInv, IndInv, TypeOK
<1> QED
  BY <1>2, <1>3, <1>4, <1>5, <1>6, <1>7, <1>8, <1>9, QuietOwners DEF ChansInv

-----------------------------------------------------------------------------
(* The calls on threads, channels and groups keep ChansInv.                 *)

\* A free block is no thread's channel, in no group, and nothing anybody
\* sleeps on, waits for or was given.
LEMMA FreeFacts ==
  ASSUME BaseInv, NEW c \in Chans, ~chan[c].live
  PROVE  /\ c \notin made /\ chan[c].receiver = NULL /\ chan[c].cgroup = NULL
         /\ \A t \in Threads : /\ thd[t].chl # c /\ ~AsleepOn(t, c) /\ event[t] # c
                               /\ InRcv(t) => thd[t].now_rcving # c
<1>1. c \notin made /\ chan[c].receiver = NULL
  BY DEF BaseInv, ChansInv, FreeUnowned
<1>2. chan[c].cgroup = NULL
  BY <1>1 DEF BaseInv, ChansInv, MembersOwned
<1>3. ASSUME NEW t \in Threads
      PROVE  /\ thd[t].chl # c /\ ~AsleepOn(t, c) /\ event[t] # c
             /\ InRcv(t) => thd[t].now_rcving # c
  <2>1. c # NULL /\ t # NULL
    BY SchedAssumption
  <2>2. thd[t].chl # c
    BY <2>1 DEF BaseInv, ChansInv, OwnChannels
  <2>3. ~AsleepOn(t, c)
    BY DEF BaseInv, ChansInv, ReceiversAwake
  <2>4. event[t] # c
    BY <1>1, <2>1 DEF BaseInv, ChansInv, EventsKept
  <2>5. InRcv(t) => thd[t].now_rcving # c
    BY <1>1, <2>1 DEF BaseInv, ChansInv, ReceiversOwn
  <2> QED
    BY <2>2, <2>3, <2>4, <2>5
<1> QED
  BY <1>1, <1>2, <1>3

\* What stays true of the channels that are not made.
LEMMA InitsFrame ==
  ASSUME BaseInv, IndInv', me \in Threads, NEW c \in Chans, NEW size, NEW n, Inits(c, size, n),
         \A d \in Chans \ {c} :
            /\ chan'[d].live = chan[d].live /\ chan'[d].receiver = chan[d].receiver
            /\ chan'[d].size = chan[d].size /\ chan'[d].cgroup = chan[d].cgroup
            /\ chan'[d].buffer = chan[d].buffer /\ chan'[d].ready = chan[d].ready,
         UNCHANGED << grp, chl_list >>, pc' = pc,
         \A u \in Threads : pc[u] = "lwt_cgrp_wait" => arg'[u] = arg[u],
         made \subseteq made', made' \subseteq made \cup {c},
         \A u \in Threads : /\ sched'.state[u] = "LWT_BLOCKED" => sched.state[u] = "LWT_BLOCKED"
                            /\ sched'.block_for[u] = sched.block_for[u]
                            /\ thd'[u].now_rcving = thd[u].now_rcving
                            /\ event'[u] = NULL \/ event'[u] = event[u],
         \A d \in Chans, u \in Threads : OnList(sched.queue, d, u) =>
            refs'[d][u] = refs[d][u] /\ thd'[u].chl = thd[u].chl
  PROVE  /\ FreeUnowned' /\ SendersHold' /\ SleepersInside' /\ ReceiversOwn' /\ ReceiversAwake'
         /\ MembersOwned' /\ WaitersBlocked' /\ EventsShown' /\ EventsKept' /\ MembersQuiet'
<1>0. /\ c \notin made /\ chan[c].receiver = NULL /\ chan[c].cgroup = NULL
      /\ \A t \in Threads : /\ thd[t].chl # c /\ ~AsleepOn(t, c) /\ event[t] # c
                            /\ InRcv(t) => thd[t].now_rcving # c
  BY FreeFacts DEF Inits
<1>1. /\ chan'[c].live /\ chan'[c].receiver = me /\ chan'[c].size = size /\ size \in Nat
      /\ chan'[c].buffer = << >> /\ chan'[c].cgroup = NULL
      /\ sched'.queue[c] = << >> /\ \A d \in Chans \ {c} : sched'.queue[d] = sched.queue[d]
  BY <1>0 DEF Inits, SameQueues
<1>2. FreeUnowned'
  BY <1>1 DEF FreeUnowned, BaseInv, ChansInv
<1>3. SendersHold'
  <2> SUFFICES ASSUME NEW d \in Chans, NEW t \in Threads, OnList(sched'.queue, d, t)
               PROVE  /\ pc'[t] \in {"lwt_snd", "lwt_snd_chan", "lwt_die"}
                      /\ IF pc'[t] = "lwt_die" THEN d = thd'[t].chl ELSE refs'[d][t] > 0
    BY DEF SendersHold, Sending
  <2>1. OnList(sched.queue, d, t)
    BY <1>1 DEF OnList
  <2> QED
    BY <2>1 DEF BaseInv, ChansInv, SendersHold, Sending
<1>4. SleepersInside'
  BY DEF BaseInv, ChansInv, SleepersInside, Sending, InRcv
<1>5. ReceiversOwn'
  <2> SUFFICES ASSUME NEW t \in Threads, InRcv(t)
               PROVE  \E d \in Chans : thd'[t].now_rcving = d /\ chan'[d].receiver = t
    BY DEF ReceiversOwn, InRcv
  <2>1. PICK d \in Chans : thd[t].now_rcving = d /\ chan[d].receiver = t
    BY DEF BaseInv, ChansInv, ReceiversOwn
  <2>2. d # c
    BY <1>0, <2>1
  <2> QED
    BY <2>1, <2>2
<1>6. ReceiversAwake'
  <2> SUFFICES ASSUME NEW t \in Threads, NEW d \in Chans, AsleepOn(t, d)'
               PROVE  /\ chan'[d].live /\ chan'[d].receiver = t
                      /\ sched'.block_for[t] = "BLOCKED_RECEIVING"
                      /\ chan'[d].buffer = << >> /\ sched'.queue[d] = << >>
    BY DEF ReceiversAwake
  <2>1. AsleepOn(t, d)
    BY DEF AsleepOn, InRcv
  <2>2. d # c
    BY <1>0, <2>1
  <2> QED
    BY <1>1, <2>1, <2>2 DEF BaseInv, ChansInv, ReceiversAwake
<1>7. MembersOwned'
  BY <1>1 DEF BaseInv, ChansInv, MembersOwned
<1>8. WaitersBlocked'
  BY DEF BaseInv, ChansInv, WaitersBlocked
<1>9. EventsShown'
  <2> SUFFICES ASSUME NEW d \in Chans
               PROVE  /\ Len(chan'[d].buffer) <= chan'[d].size
                      /\ sched'.queue[d] # << >> => Len(chan'[d].buffer) = chan'[d].size
                      /\ chan'[d].buffer # << >> \/ sched'.queue[d] # << >> => chan'[d].ready
    BY DEF EventsShown, BufferFull
  <2>1. CASE d = c
    BY <1>1, <2>1
  <2>2. CASE d # c
    BY <1>1, <2>2 DEF BaseInv, ChansInv, EventsShown, BufferFull
  <2> QED
    BY <2>1, <2>2
<1>10. EventsKept'
  <2> SUFFICES ASSUME NEW t \in Threads, event'[t] # NULL
               PROVE  /\ chan'[event'[t]].receiver = t /\ chan'[event'[t]].cgroup # NULL
                      /\ chan'[event'[t]].ready
    BY DEF EventsKept
  <2>1. event'[t] = event[t] /\ event[t] \in Chans \ {c}
    BY <1>0 DEF BaseInv, IndInv, TypeOK
  <2> QED
    BY <2>1 DEF BaseInv, ChansInv, EventsKept
<1>11. MembersQuiet'
  <2> SUFFICES ASSUME NEW t \in Threads, NEW g \in Groups, AsleepInWait(t, g)',
                      NEW d \in Chans, chan'[d].cgroup = g
               PROVE  ~chan'[d].ready
    BY DEF MembersQuiet
  <2>1. AsleepInWait(t, g) /\ d # c
    BY <1>1, LwtAssumption DEF AsleepInWait
  <2> QED
    BY <2>1, QuietMembers DEF MembersQuiet
<1> QED
  BY <1>2, <1>3, <1>4, <1>5, <1>6, <1>7, <1>8, <1>9, <1>10, <1>11

LEMMA OpensChans ==
  ASSUME BaseInv, IndInv', GroupsInv', NEW c, NEW size, Opens(c, size)
  PROVE  ChansInv'
<1>1. /\ me \in Threads /\ c \in Chans /\ Inits(c, size, 0) /\ made' = made \cup {c}
      /\ \A d \in Chans \ {c} : chan'[d] = chan[d]
      /\ \A u \in Threads : sched'.state[u] = sched.state[u] /\ sched'.block_for[u] = sched.block_for[u]
      /\ UNCHANGED << thd, grp, chl_list, pc, arg, event, refs >>
  BY DEF Opens, SameChannel
<1>2. /\ FreeUnowned' /\ SendersHold' /\ SleepersInside' /\ ReceiversOwn' /\ ReceiversAwake'
      /\ MembersOwned' /\ WaitersBlocked' /\ EventsShown' /\ EventsKept' /\ MembersQuiet'
  BY <1>1, InitsFrame
<1>3. OwnChannels'
  <2>1. \A t \in Threads : thd[t].chl # NULL => thd[t].chl \in Chans \ {c}
    BY <1>1, FreeFacts DEF Inits, BaseInv, IndInv, TypeOK, ThreadFields
  <2> QED
    BY <1>1, <2>1 DEF OwnChannels, BaseInv, ChansInv
<1> QED
  BY <1>2, <1>3, QuietOwners DEF ChansInv

LEMMA SpawnsChans ==
  ASSUME BaseInv, IndInv', GroupsInv', NEW t, NEW x, NEW given, Spawns(t, x, given)
  PROVE  ChansInv'
<1>1. /\ me \in Threads /\ t \in Threads /\ x \in Chans /\ Inits(x, 0, 1) /\ made' = made
      /\ pc[t] = "client"
      /\ \A d \in Chans \ {x} :
            /\ chan'[d].live = chan[d].live /\ chan'[d].receiver = chan[d].receiver
            /\ chan'[d].size = chan[d].size /\ chan'[d].cgroup = chan[d].cgroup
            /\ chan'[d].buffer = chan[d].buffer /\ chan'[d].ready = chan[d].ready
      /\ UNCHANGED << grp, chl_list >>
      /\ thd'[t].chl = x /\ thd'[t].parent = me /\ thd'[t].now_rcving = thd[t].now_rcving
      /\ \A u \in Threads \ {t} : thd'[u] = thd[u]
  BY DEF Spawns
<1>2. pc' = pc /\ \A u \in Threads : arg'[u] = IF u = t THEN NULL ELSE arg[u]
  BY <1>1 DEF Spawns, BaseInv, IndInv, TypeOK
<1>3. \A u \in Threads :
        /\ sched'.state[u] = "LWT_BLOCKED" => sched.state[u] = "LWT_BLOCKED"
        /\ sched'.block_for[u] = sched.block_for[u]
        /\ thd'[u].now_rcving = thd[u].now_rcving
        /\ event'[u] = NULL \/ event'[u] = event[u]
  BY <1>1 DEF Spawns
<1>4. ASSUME NEW d \in Chans, NEW u \in Threads, OnList(sched.queue, d, u)
      PROVE  refs'[d][u] = refs[d][u] /\ thd'[u].chl = thd[u].chl
  <2>1. u # t
    BY <1>1, <1>4 DEF BaseInv, ChansInv, SendersHold, Sending
  <2> QED
    BY <1>1, <2>1 DEF Spawns
<1>5. /\ FreeUnowned' /\ SendersHold' /\ SleepersInside' /\ ReceiversOwn' /\ ReceiversAwake'
      /\ MembersOwned' /\ WaitersBlocked' /\ EventsShown' /\ EventsKept' /\ MembersQuiet'
  BY <1>1, <1>2, <1>3, <1>4, InitsFrame
<1>6. OwnChannels'
  <2> SUFFICES ASSUME NEW u \in Threads, thd'[u].chl # NULL
               PROVE  /\ thd'[u].chl \notin made' /\ chan'[thd'[u].chl].live
                      /\ chan'[thd'[u].chl].size = 0
                      /\ thd'[u].parent \in Threads
                      /\ chan'[thd'[u].chl].receiver = thd'[u].parent
                      /\ \A w \in Threads \ {u} : thd'[w].chl # thd'[u].chl
    BY DEF OwnChannels
  <2>1. \A w \in Threads : thd[w].chl # x
    BY <1>1, FreeFacts DEF Inits
  <2>2. x \notin made
    BY <1>1, FreeFacts DEF Inits
  <2>3. CASE u = t
    BY <1>1, <2>1, <2>2, <2>3 DEF Inits
  <2>4. CASE u # t
    <3>0. thd'[u] = thd[u]
      BY <1>1, <2>4
    <3>1. thd'[u].chl = thd[u].chl /\ thd'[u].parent = thd[u].parent /\ thd[u].chl \in Chans \ {x}
      <4>1. thd[u].chl \in Chans \cup {NULL}
        BY DEF BaseInv, IndInv, TypeOK, ThreadFields
      <4> QED
        BY <2>1, <3>0, <4>1
    <3>2. /\ thd[u].chl \notin made /\ chan[thd[u].chl].live /\ chan[thd[u].chl].size = 0
          /\ thd[u].parent \in Threads /\ chan[thd[u].chl].receiver = thd[u].parent
          /\ \A w \in Threads \ {u} : thd[w].chl # thd[u].chl
      BY <2>4, <3>1 DEF BaseInv, ChansInv, OwnChannels
    <3>3. \A w \in Threads \ {u} : thd'[w].chl # thd'[u].chl
      <4>1. thd'[t].chl = x /\ \A w \in Threads \ {t} : thd'[w] = thd[w]
        BY <1>1
      <4> QED
        BY <3>1, <3>2, <4>1
    <3> DEFINE y == thd[u].chl
    <3>4. /\ y \in Chans \ {x} /\ thd'[u].chl = y /\ y \notin made
          /\ chan[y].live /\ chan[y].size = 0 /\ chan[y].receiver = thd'[u].parent
      BY <3>1, <3>2
    <3>5. chan'[y].live /\ chan'[y].size = 0 /\ chan'[y].receiver = thd'[u].parent
      <4> HIDE DEF y
      <4> QED
        BY <1>1, <3>4
    <3>6. made' = made
      BY <1>1
    <3> QED
      BY <3>1, <3>2, <3>3, <3>4, <3>5, <3>6
  <2> QED
    BY <2>3, <2>4
<1> QED
  BY <1>5, <1>6, QuietOwners DEF ChansInv

LEMMA DropsChans ==
  ASSUME BaseInv, IndInv', GroupsInv', NEW c, Drops(c)
  PROVE  ChansInv'
<1>1. /\ me \in Threads /\ pc[me] = "client" /\ c \in Chans /\ MayDeref(c)
      /\ chan'[c].receiver = (IF chan[c].receiver = me THEN NULL ELSE chan[c].receiver)
      /\ chan'[c].live = (chan[c].live /\ ~(chan'[c].snd_cnt = 0 /\ chan'[c].receiver = NULL))
      /\ chan'[c].size = chan[c].size /\ chan'[c].cgroup = chan[c].cgroup
      /\ chan'[c].buffer = chan[c].buffer /\ chan'[c].ready = chan[c].ready
      /\ \A d \in Chans \ {c} : chan'[d] = chan[d]
      /\ made' = (IF chan'[c].live THEN made ELSE made \ {c})
      /\ UNCHANGED << sched, thd, grp, chl_list, pc, arg, event >>
  BY DEF Drops, SameChannel
<1>2. /\ me # NULL /\ c \in made /\ (chan[c].receiver = me => chan[c].cgroup = NULL)
      /\ chan[c].live
  BY <1>1, SchedAssumption DEF MayDeref, Knows, BaseInv, ChansInv, FreeUnowned
<1>3. \A d \in Chans : /\ chan'[d].size = chan[d].size /\ chan'[d].cgroup = chan[d].cgroup
                       /\ chan'[d].buffer = chan[d].buffer /\ chan'[d].ready = chan[d].ready
  BY <1>1
\* Only a channel without a receiver is freed.
<1>4. \A d \in Chans : chan[d].receiver \notin {NULL, me} =>
        /\ chan'[d].receiver = chan[d].receiver /\ chan'[d].live = chan[d].live
        /\ d \in made' <=> d \in made
  BY <1>1, <1>2
<1>5. FreeUnowned'
  <2> SUFFICES ASSUME NEW d \in Chans, ~chan'[d].live
               PROVE  d \notin made' /\ chan'[d].receiver = NULL
    BY DEF FreeUnowned
  <2>1. CASE d = c
    BY <1>1, <1>2, <2>1
  <2>2. CASE d # c
    BY <1>1, <2>2 DEF BaseInv, ChansInv, FreeUnowned
  <2> QED
    BY <2>1, <2>2
<1>6. OwnChannels'
  <2>1. \A t \in Threads : thd[t].chl # NULL => thd[t].chl \in Chans \ {c}
    BY <1>2 DEF BaseInv, IndInv, TypeOK, ThreadFields, ChansInv, OwnChannels
  <2>2. made' \subseteq made
    BY <1>1
  <2> QED
    BY <1>1, <2>1, <2>2 DEF OwnChannels, BaseInv, ChansInv
<1>7. SendersHold'
  <2> SUFFICES ASSUME NEW d \in Chans, NEW t \in Threads, OnList(sched.queue, d, t)
               PROVE  /\ Sending(t)
                      /\ IF pc[t] = "lwt_die" THEN d = thd[t].chl ELSE refs'[d][t] > 0
    BY <1>1 DEF SendersHold, Sending
  <2>1. t # me
    BY <1>1, CurrentFacts
  <2>2. refs'[d][t] = refs[d][t]
    BY <1>1, <2>1 DEF Drops
  <2> QED
    BY <2>2 DEF BaseInv, ChansInv, SendersHold
<1>8. SleepersInside'
  BY <1>1 DEF BaseInv, ChansInv, SleepersInside, Sending, InRcv
<1>9. ReceiversOwn'
  <2> SUFFICES ASSUME NEW t \in Threads, InRcv(t)
               PROVE  \E d \in Chans : thd[t].now_rcving = d /\ chan'[d].receiver = t
    BY <1>1 DEF ReceiversOwn, InRcv
  <2>1. PICK d \in Chans : thd[t].now_rcving = d /\ chan[d].receiver = t
    BY DEF BaseInv, ChansInv, ReceiversOwn
  <2>2. t # me /\ t # NULL
    BY <1>1, SchedAssumption DEF InRcv
  <2> QED
    BY <1>4, <2>1, <2>2
<1>10. ReceiversAwake'
  <2> SUFFICES ASSUME NEW t \in Threads, NEW d \in Chans, AsleepOn(t, d)
               PROVE  /\ chan'[d].live /\ chan'[d].receiver = t
                      /\ sched'.block_for[t] = "BLOCKED_RECEIVING"
                      /\ chan'[d].buffer = << >> /\ sched'.queue[d] = << >>
    BY <1>1 DEF ReceiversAwake, AsleepOn, InRcv
  <2>1. t # me /\ t # NULL
    BY <1>1, CurrentFacts, SchedAssumption
  <2> QED
    BY <1>1, <1>3, <1>4, <2>1 DEF BaseInv, ChansInv, ReceiversAwake
<1>11. MembersOwned'
  <2> SUFFICES ASSUME NEW d \in Chans, chan[d].cgroup # NULL
               PROVE  /\ d \in made' /\ chan'[d].receiver \in Threads
                      /\ chan'[d].receiver = grp[chan[d].cgroup].owner
    BY <1>1, <1>3 DEF MembersOwned
  <2>1. d \in made /\ chan[d].receiver \in Threads /\ chan[d].receiver = grp[chan[d].cgroup].owner
    BY DEF BaseInv, ChansInv, MembersOwned
  <2>2. CASE d = c
    <3>1. chan[d].receiver \notin {NULL, me}
      BY <1>2, <2>1, <2>2, SchedAssumption
    <3> QED
      BY <1>4, <2>1, <3>1
  <2>3. CASE d # c
    BY <1>1, <2>1, <2>3
  <2> QED
    BY <2>2, <2>3
<1>12. WaitersBlocked'
  BY <1>1 DEF BaseInv, ChansInv, WaitersBlocked
<1>13. EventsShown'
  BY <1>1, <1>3 DEF BaseInv, ChansInv, EventsShown, BufferFull
<1>14. EventsKept'
  <2> SUFFICES ASSUME NEW t \in Threads, event[t] # NULL
               PROVE  /\ chan'[event[t]].receiver = t /\ chan'[event[t]].cgroup # NULL
                      /\ chan'[event[t]].ready
    BY <1>1 DEF EventsKept
  <2>1. /\ event[t] \in Chans /\ chan[event[t]].receiver = t /\ chan[event[t]].cgroup # NULL
        /\ chan[event[t]].ready
    BY DEF BaseInv, IndInv, TypeOK, ChansInv, EventsKept
  <2>2. CASE event[t] = c
    BY <1>1, <1>2, <2>1, <2>2
  <2>3. CASE event[t] # c
    BY <1>1, <2>1, <2>3
  <2> QED
    BY <2>2, <2>3
<1>15. MembersQuiet'
  <2> SUFFICES ASSUME NEW t \in Threads, NEW g \in Groups, AsleepInWait(t, g),
                      NEW d \in Chans, chan[d].cgroup = g
               PROVE  ~chan[d].ready
    BY <1>1, <1>3 DEF MembersQuiet, AsleepInWait
  <2> QED
    BY QuietMembers DEF MembersQuiet
<1> QED
  BY <1>5, <1>6, <1>7, <1>8, <1>9, <1>10, <1>11, <1>12, <1>13, <1>14, <1>15, QuietOwners
     DEF ChansInv

\* Calls on groups that change neither the threads nor what channels hold.
LEMMA GroupFrame ==
  ASSUME BaseInv, IndInv', SameOwners, SameContents({}), refs' = refs,
         UNCHANGED << sched, thd, pc, arg, event >>
  PROVE  /\ FreeUnowned' /\ OwnChannels' /\ SendersHold' /\ SleepersInside' /\ ReceiversOwn'
         /\ ReceiversAwake' /\ EventsShown'
<1>1. FreeUnowned' /\ OwnChannels'
  BY OwnersFrame
<1>2. SendersHold' /\ SleepersInside'
  BY DEF BaseInv, ChansInv, SendersHold, SleepersInside, Sending, InRcv
<1>3. ReceiversOwn'
  BY DEF BaseInv, ChansInv, ReceiversOwn, InRcv, SameOwners
<1>4. ReceiversAwake'
  BY DEF BaseInv, ChansInv, ReceiversAwake, AsleepOn, InRcv, SameOwners, SameContents
<1>5. EventsShown'
  BY DEF BaseInv, ChansInv, EventsShown, BufferFull, SameOwners, SameContents
<1> QED
  BY <1>1, <1>2, <1>3, <1>4, <1>5

LEMMA RegroupsChans ==
  ASSUME BaseInv, IndInv', GroupsInv', NEW g, NEW c, Adds(g, c) \/ Removes(g, c)
  PROVE  ChansInv'
<1>1. PICK h \in {g, NULL} :
        /\ Regroups(g, c, h)
        /\ h # NULL => h = g /\ MayAdd(g, c) /\ chan[c].cgroup = NULL
        /\ h = NULL => ~chan[c].ready
  <2>1. g # NULL
    BY LwtAssumption DEF Adds, Removes, Regroups, Owner
  <2> QED
    BY <2>1 DEF Adds, Removes
<1>2. /\ me \in Threads /\ pc[me] = "client" /\ g \in Groups /\ c \in Chans
      /\ chan'[c].cgroup = h /\ \A d \in Chans \ {c} : chan'[d].cgroup = chan[d].cgroup
      /\ SameOwners /\ SameContents({})
      /\ \A d \in Chans : /\ chan'[d].receiver = chan[d].receiver /\ chan'[d].ready = chan[d].ready
      /\ UNCHANGED << sched, thd, grp, pc, arg, event, refs, made >>
  BY <1>1 DEF Regroups, Owner, clientVars, SameOwners, SameContents
<1>3. /\ FreeUnowned' /\ OwnChannels' /\ SendersHold' /\ SleepersInside' /\ ReceiversOwn'
      /\ ReceiversAwake' /\ EventsShown'
  BY <1>2, GroupFrame
<1>4. MembersOwned'
  <2> SUFFICES ASSUME NEW d \in Chans, chan'[d].cgroup # NULL
               PROVE  /\ d \in made /\ chan[d].receiver \in Threads
                      /\ chan[d].receiver = grp[chan'[d].cgroup].owner
    BY <1>2 DEF MembersOwned
  <2>1. CASE d = c
    BY <1>1, <1>2, <2>1 DEF MayAdd, MayGroup
  <2>2. CASE d # c
    BY <1>2, <2>2 DEF BaseInv, ChansInv, MembersOwned
  <2> QED
    BY <2>1, <2>2
<1>5. WaitersBlocked'
  BY <1>2 DEF BaseInv, ChansInv, WaitersBlocked
<1>6. EventsKept'
  <2> SUFFICES ASSUME NEW t \in Threads, event[t] # NULL
               PROVE  /\ chan'[event[t]].receiver = t /\ chan'[event[t]].cgroup # NULL
                      /\ chan'[event[t]].ready
    BY <1>2 DEF EventsKept
  <2>1. /\ event[t] \in Chans /\ chan[event[t]].receiver = t /\ chan[event[t]].cgroup # NULL
        /\ chan[event[t]].ready
    BY DEF BaseInv, IndInv, TypeOK, ChansInv, EventsKept
  <2>2. event[t] # c
    BY <1>1, <2>1
  <2> QED
    BY <1>2, <2>1, <2>2
<1>7. MembersQuiet'
  <2> SUFFICES ASSUME NEW t \in Threads, NEW k \in Groups, AsleepInWait(t, k),
                      NEW d \in Chans, chan'[d].cgroup = k
               PROVE  ~chan[d].ready
    BY <1>2 DEF MembersQuiet, AsleepInWait
  <2>1. CASE d = c
    <3>1. k = g /\ grp[g].owner = me /\ grp[g].owner = t
      BY <1>1, <1>2, <2>1, LwtAssumption
         DEF MayAdd, MayGroup, BaseInv, ChansInv, OwnersAwake
    <3> QED
      BY <1>2, <3>1 DEF AsleepInWait
  <2>2. CASE d # c
    BY <1>2, <2>2, QuietMembers DEF MembersQuiet
  <2> QED
    BY <2>1, <2>2
<1> QED
  BY <1>3, <1>4, <1>5, <1>6, <1>7, QuietOwners DEF ChansInv

LEMMA RenewsChans ==
  ASSUME BaseInv, IndInv', GroupsInv', NEW g, Renews(g)
  PROVE  ChansInv'
<1>1. /\ \A h \in Groups \ {g} : grp'[h] = grp[h]
      /\ \A d \in Chans : chan[d].cgroup # g
      /\ \A t \in Threads : pc[t] = "lwt_cgrp_wait" => arg[t] # g
      /\ UNCHANGED << sched, thd, chan, pc, arg, made, event, refs >>
  BY DEF Renews, clientVars
<1>2. /\ FreeUnowned' /\ OwnChannels' /\ SendersHold' /\ SleepersInside' /\ ReceiversOwn'
      /\ ReceiversAwake' /\ EventsShown'
  BY <1>1, GroupFrame DEF SameOwners, SameContents
<1>3. MembersOwned'
  <2> SUFFICES ASSUME NEW d \in Chans, chan[d].cgroup # NULL
               PROVE  /\ d \in made /\ chan[d].receiver \in Threads
                      /\ chan[d].receiver = grp'[chan[d].cgroup].owner
    BY <1>1 DEF MembersOwned
  <2>1. chan[d].cgroup \in Groups \ {g}
    BY <1>1, ChannelOf DEF BaseInv, IndInv
  <2> QED
    BY <1>1, <2>1 DEF BaseInv, ChansInv, MembersOwned
<1>4. WaitersBlocked'
  BY <1>1 DEF BaseInv, IndInv, BlockedOwnersWait, ChansInv, WaitersBlocked
<1>5. EventsKept'
  BY <1>1 DEF BaseInv, ChansInv, EventsKept
<1>6. MembersQuiet'
  BY <1>1, QuietMembers DEF MembersQuiet, AsleepInWait
<1> QED
  BY <1>2, <1>3, <1>4, <1>5, <1>6, QuietOwners DEF ChansInv

\* Both ends of a turn of the loop of lwt_cgrp_wait.
LEMMA WaitingFrame ==
  ASSUME BaseInv, NEW g, Waiting(g)
  PROVE  /\ SameOwners /\ MembersOwned' /\ FreeUnowned' /\ OwnChannels'
         /\ \A t \in Threads \ {me} : pc'[t] = "lwt_cgrp_wait" => grp'[arg'[t]].blocked
<1>1. /\ me \in Threads /\ g \in Groups /\ grp[g].owner = me
      /\ grp'[g].owner = grp[g].owner /\ \A h \in Groups \ {g} : grp'[h] = grp[h]
      /\ \A t \in Threads \ {me} : pc'[t] = pc[t] /\ arg'[t] = arg[t]
      /\ UNCHANGED << thd, chan, made, refs >>
  BY DEF Waiting, SameCalls
<1>2. SameOwners
  BY <1>1 DEF SameOwners
<1>3. MembersOwned'
  <2>1. \A h \in Groups : grp'[h].owner = grp[h].owner
    BY <1>1
  <2>2. \A d \in Chans : chan[d].cgroup # NULL => chan[d].cgroup \in Groups
    BY ChannelOf DEF BaseInv, IndInv
  <2> QED
    BY <1>1, <2>1, <2>2 DEF BaseInv, ChansInv, MembersOwned
<1>4. ASSUME NEW t \in Threads \ {me}, pc'[t] = "lwt_cgrp_wait"
      PROVE  grp'[arg'[t]].blocked
  <2>1. pc[t] = "lwt_cgrp_wait" /\ arg'[t] = arg[t]
    BY <1>1, <1>4
  <2>2. arg[t] \in Groups /\ grp[arg[t]].owner = t /\ grp[arg[t]].blocked
    BY <2>1 DEF BaseInv, IndInv, BlockedOwnersWait, ChansInv, WaitersBlocked
  <2> QED
    BY <1>1, <2>1, <2>2
<1> QED
  BY <1>2, <1>3, <1>4, OwnersFrame

LEMMA ReturnsChans ==
  ASSUME BaseInv, IndInv', GroupsInv', NEW g, NEW c, Returns(g, c)
  PROVE  ChansInv'
<1>1. /\ me \in Threads /\ g \in Groups /\ grp[g].owner = me /\ Waiting(g)
      /\ c \in Chans /\ chan[c].cgroup = g /\ chan[c].ready
      /\ event'[me] = c /\ \A u \in Threads \ {me} : event'[u] = event[u]
      /\ pc'[me] = "client" /\ \A u \in Threads \ {me} : pc'[u] = pc[u]
      /\ UNCHANGED << sched, arg, thd, chan, refs >>
      /\ sched.state[me] # "LWT_BLOCKED"
      /\ SameCalls /\ SameRcving({}) /\ SameContents({}) /\ SameQueues({}) /\ OthersStand({})
  BY CurrentFacts
     DEF Returns, Waiting, SameCalls, SameRcving, SameContents, SameQueues, OthersStand, Stands
<1>2. /\ SameOwners /\ MembersOwned' /\ FreeUnowned' /\ OwnChannels'
      /\ WaitersBlocked'
  BY <1>1, WaitingFrame DEF WaitersBlocked
<1>3. SendersHold' /\ SleepersInside' /\ ReceiversOwn'
  BY <1>1, <1>2, SendersStay, SleepersFrame, ReceiversOwnFrame DEF RcvCalls
<1>4. ReceiversAwake'
  BY <1>1, <1>2, AwakeFrame DEF SameContents, SameQueues, RcvCalls
<1>5. EventsShown'
  BY <1>1, <1>2, ShownFrame
<1>6. EventsKept'
  <2> SUFFICES ASSUME NEW t \in Threads, event'[t] # NULL
               PROVE  /\ chan[event'[t]].receiver = t /\ chan[event'[t]].cgroup # NULL
                      /\ chan[event'[t]].ready
    BY <1>1 DEF EventsKept
  <2>1. CASE t = me
    BY <1>1, <2>1, LwtAssumption DEF BaseInv, ChansInv, MembersOwned
  <2>2. CASE t # me
    BY <1>1, <2>2 DEF BaseInv, ChansInv, EventsKept
  <2> QED
    BY <2>1, <2>2
<1>7. MembersQuiet'
  <2> SUFFICES ASSUME NEW t \in Threads, NEW h \in Groups, AsleepInWait(t, h)',
                      NEW d \in Chans, chan[d].cgroup = h
               PROVE  ~chan[d].ready
    BY <1>1 DEF MembersQuiet
  <2>1. AsleepInWait(t, h)
    BY <1>1 DEF AsleepInWait
  <2> QED
    BY <2>1, QuietMembers DEF MembersQuiet
<1> QED
  BY <1>2, <1>3, <1>4, <1>5, <1>6, <1>7, QuietOwners DEF ChansInv

LEMMA WaitsChans ==
  ASSUME BaseInv, IndInv', GroupsInv', NEW g, Waits(g)
  PROVE  ChansInv'
<1>1. /\ me \in Threads /\ g \in Groups /\ grp[g].owner = me /\ Waiting(g)
      /\ \A c \in Chans : chan[c].cgroup = g => ~chan[c].ready
      /\ grp'[g].blocked /\ pc'[me] = "lwt_cgrp_wait" /\ arg'[me] = g
      /\ UNCHANGED << thd, chan, event, refs >>
      /\ SameQueues({}) /\ OthersStand({})
      /\ sched'.block_for[me] = "BLOCKED_RECEIVING"
      /\ SameCalls /\ SameRcving({}) /\ SameContents({})
  BY DEF Waits, Waiting, SameRcving, SameContents
<1>2. /\ SameOwners /\ MembersOwned' /\ FreeUnowned' /\ OwnChannels'
      /\ WaitersBlocked'
  BY <1>1, WaitingFrame DEF WaitersBlocked
<1>3. SendersHold' /\ SleepersInside' /\ ReceiversOwn'
  BY <1>1, <1>2, SendersStay, SleepersFrame, ReceiversOwnFrame DEF RcvCalls
<1>4. ReceiversAwake'
  BY <1>1, <1>2, AwakeFrame DEF SameContents, SameQueues, RcvCalls
<1>5. EventsShown'
  BY <1>1, <1>2, ShownFrame
<1>6. EventsKept'
  BY <1>1 DEF BaseInv, ChansInv, EventsKept
<1>7. MembersQuiet'
  <2> SUFFICES ASSUME NEW t \in Threads, NEW h \in Groups, AsleepInWait(t, h)',
                      NEW d \in Chans, chan[d].cgroup = h
               PROVE  ~chan[d].ready
    BY <1>1 DEF MembersQuiet
  <2>1. CASE t = me
    BY <1>1, <2>1 DEF AsleepInWait
  <2>2. CASE t # me
    <3>1. sched'.state[t] = "LWT_BLOCKED" /\ pc'[t] = "lwt_cgrp_wait" /\ arg'[t] = h
      BY DEF AsleepInWait
    <3>2. AsleepInWait(t, h)
      BY <1>1, <2>2, <3>1, SleptBefore DEF AsleepInWait, SameCalls
    <3> QED
      BY <3>2, QuietMembers DEF MembersQuiet
  <2> QED
    BY <2>1, <2>2
<1> QED
  BY <1>2, <1>3, <1>4, <1>5, <1>6, <1>7, QuietOwners DEF ChansInv

-----------------------------------------------------------------------------
(* The theorems that hold whatever rules the clients break.                 *)

LEMMA InitBaseInv == Init => BaseInv
<1> SUFFICES ASSUME Init
             PROVE  BaseInv
  OBVIOUS
<1>1. /\ \A c \in Chans : /\ ~chan[c].live /\ chan[c].receiver = NULL /\ chan[c].buffer = << >>
                          /\ chan[c].size = 0 /\ chan[c].cgroup = NULL /\ ~chan[c].ready
      /\ \A t \in Threads : thd[t].chl = NULL /\ pc[t] = "client" /\ event[t] = NULL
      /\ made = {}
  BY DEF Init
<1>2. /\ \A c \in Chans : sched.queue[c] = << >>
      /\ \A t \in Threads : sched.state[t] # "LWT_BLOCKED"
  BY HeadsDistinct DEF Init, SchedInit, Heads
<1>3. \A c \in Chans, t \in Threads : ~OnList(sched.queue, c, t)
  BY <1>2 DEF OnList
<1>4. FreeUnowned /\ OwnChannels /\ SendersHold /\ SleepersInside /\ ReceiversOwn
  BY <1>1, <1>2, <1>3 DEF FreeUnowned, OwnChannels, SendersHold, SleepersInside, ReceiversOwn, InRcv
<1>5. ReceiversAwake /\ MembersOwned /\ WaitersBlocked /\ EventsKept /\ OwnersAwake
  BY <1>1, <1>2
     DEF ReceiversAwake, AsleepOn, MembersOwned, WaitersBlocked, EventsKept, OwnersAwake, AsleepInWait
<1>6. EventsShown
  BY <1>1, <1>2 DEF EventsShown, BufferFull
<1> QED
  BY <1>4, <1>5, <1>6, InitIndInv, InitGroupsInv DEF BaseInv, ChansInv

LEMMA NextBaseInv == BaseInv /\ [Next]_vars => BaseInv'
<1> SUFFICES ASSUME BaseInv, [Next]_vars
             PROVE  BaseInv'
  OBVIOUS
<1>1. IndInv' /\ GroupsInv'
  BY NextIndInv, NextGroupsInv DEF BaseInv
<1>2. CASE Next
  <2>0. Step
    BY <1>2, NextShape
  <2>1. CASE Passes
    BY <1>1, <2>1, PassesChans DEF BaseInv
  <2>2. ASSUME NEW c \in Chans, NEW v \in Values, NEW k \in SndCalls,
               HandsOff(c, v, k) \/ Buffers(c, v, k) \/ Blocks(c, v, k)
        PROVE  BaseInv'
    BY <1>1, <2>2, HandsOffChans, BuffersChans, BlocksChans DEF BaseInv
  <2>3. ASSUME NEW c \in Chans, NEW k \in RcvCalls, NEW x \in Threads \cup {NULL},
               (\E v \in Values \cup {NULL} : Takes(c, v, k, x)) \/ Sleeps(c, k, x)
        PROVE  BaseInv'
    BY <1>1, <2>3, TakesChans, SleepsChans DEF BaseInv
  <2>4. CASE Awakes
    BY <1>1, <2>4, AwakesChans DEF BaseInv
  <2>5. ASSUME NEW c \in Chans, NEW size \in Nat, Opens(c, size)
        PROVE  BaseInv'
    BY <1>1, <2>5, OpensChans DEF BaseInv
  <2>6. ASSUME NEW t \in Threads, NEW x \in Chans, NEW given \in Chans \cup {NULL},
               Spawns(t, x, given)
        PROVE  BaseInv'
    BY <1>1, <2>6, SpawnsChans DEF BaseInv
  <2>7. ASSUME NEW c \in Chans, Drops(c)
        PROVE  BaseInv'
    BY <1>1, <2>7, DropsChans DEF BaseInv
  <2>8. ASSUME NEW g \in Groups, NEW c \in Chans, Adds(g, c) \/ Removes(g, c) \/ Returns(g, c)
        PROVE  BaseInv'
    BY <1>1, <2>8, RegroupsChans, ReturnsChans DEF BaseInv
  <2>9. ASSUME NEW g \in Groups, Renews(g) \/ Waits(g)
        PROVE  BaseInv'
    BY <1>1, <2>9, RenewsChans, WaitsChans DEF BaseInv
  <2> QED
    BY <2>0, <2>1, <2>2, <2>3, <2>4, <2>5, <2>6, <2>7, <2>8, <2>9 DEF Step
<1>3. CASE UNCHANGED vars
  BY <1>1, <1>3
     DEF vars, BaseInv, ChansInv, FreeUnowned, OwnChannels, SendersHold, Sending, SleepersInside,
         ReceiversOwn, ReceiversAwake, MembersOwned, WaitersBlocked, EventsShown, BufferFull,
         EventsKept, OwnersAwake, AsleepInWait, AsleepOn, InRcv
<1> QED
  BY <1>2, <1>3

LEMMA BaseInvHolds == Spec => []BaseInv
<1>1. Init => BaseInv
  BY InitBaseInv
<1>2. BaseInv /\ [Next]_vars => BaseInv'
  BY NextBaseInv
<1> QED
  BY <1>1, <1>2, PTL DEF Spec

\* A channel that holds a message, in its buffer or with a blocked sender, has
\* ready set, which is all lwt_cgrp_wait looks at; and lwt_snd blocks only
\* behind a full buffer.
THEOREM MessagesShown == Spec => []EventsVisible
<1>1. BaseInv => EventsVisible
  BY DEF BaseInv, ChansInv, EventsShown, EventsVisible
<1> QED
  BY <1>1, BaseInvHolds, PTL

\* lwt_rcv, lwt_rcv_chan and lwt_join never sleep through a message: the
\* channel a thread is blocked on is empty, and lwt_snd on it finds the thread.
THEOREM NoLostMessage == Spec => []ReceiversAwake
<1>1. BaseInv => ReceiversAwake
  BY DEF BaseInv, ChansInv
<1> QED
  BY <1>1, BaseInvHolds, PTL

\* lwt_cgrp_wait never sleeps through an event: no channel of the group of a
\* waiting owner has one, and lwt_snd on any of them resumes the owner.
THEOREM NoLostEvent == Spec => []OwnersAwake
<1>1. BaseInv => OwnersAwake
  BY DEF BaseInv, ChansInv
<1> QED
  BY <1>1, BaseInvHolds, PTL

-----------------------------------------------------------------------------
(* The counters, as long as nobody waits on a group.                        *)

\* Of n threads, as p places them, are dying, and nobody waits on a group.
DyingCounted(n, p) ==
  LET D == {t \in Threads : p[t] = "lwt_die"}
  IN  /\ IsFiniteSet(D) /\ n = Cardinality(D)
      /\ \A t \in Threads : p[t] # "lwt_cgrp_wait"

LEMMA PlaceCounted ==
  ASSUME NEW p \in [Threads -> Places], NEW t \in Threads, NEW w, w # "lwt_cgrp_wait",
         NEW n \in Int, DyingCounted(n, p)
  PROVE  LET q == [p EXCEPT ![t] = w]
         IN  /\ (p[t] = "lwt_die" <=> w = "lwt_die") => DyingCounted(n, q)
             /\ p[t] # "lwt_die" /\ w = "lwt_die" => DyingCounted(n + 1, q)
             /\ p[t] = "lwt_die" /\ w # "lwt_die" => DyingCounted(n - 1, q)
<1> DEFINE q == [p EXCEPT ![t] = w]
           D(f) == {u \in Threads : f[u] = "lwt_die"}
<1>1. q[t] = w /\ \A u \in Threads \ {t} : q[u] = p[u]
  OBVIOUS
<1> HIDE DEF q
<1>2. \A u \in Threads : q[u] # "lwt_cgrp_wait"
  BY <1>1 DEF DyingCounted
<1>3. IsFiniteSet(D(p)) /\ n = Cardinality(D(p))
  BY DEF DyingCounted
<1>4. CASE p[t] = "lwt_die" <=> w = "lwt_die"
  <2>1. D(q) = D(p)
    BY <1>1, <1>4
  <2> QED
    BY <1>2, <1>3, <1>4, <2>1 DEF DyingCounted, q
<1>5. CASE p[t] # "lwt_die" /\ w = "lwt_die"
  <2>1. D(q) = D(p) \cup {t} /\ t \notin D(p)
    BY <1>1, <1>5
  <2>2. IsFiniteSet(D(q)) /\ n + 1 = Cardinality(D(q))
    <3> HIDE DEF D
    <3> QED
      BY <1>3, <2>1, FS_AddElement
  <2> QED
    BY <1>2, <1>5, <2>2 DEF DyingCounted, q
<1>6. CASE p[t] = "lwt_die" /\ w # "lwt_die"
  <2>1. D(q) = D(p) \ {t} /\ t \in D(p)
    BY <1>1, <1>6
  <2>2. IsFiniteSet(D(q)) /\ n - 1 = Cardinality(D(q))
    <3> HIDE DEF D
    <3> QED
      BY <1>3, <2>1, FS_RemoveElement
  <2> QED
    BY <1>2, <1>6, <2>2 DEF DyingCounted, q
<1> QED
  BY <1>4, <1>5, <1>6 DEF q

CountersInv == Counted(sched) /\ DyingCounted(sched.zombie_counter, pc)

\* What the steps start from.
LEMMA CountersFacts ==
  ASSUME BaseInv, CountersInv, me # NULL
  PROVE  /\ sched \in Sched /\ ListsSound(sched) /\ sched.current_thread = me /\ me \in Threads
         /\ sched.state[me] = "LWT_RUNNING" /\ pc \in [Threads -> Places]
         /\ sched.zombie_counter \in Int
  BY CurrentIsThread DEF BaseInv, IndInv, TypeOK, NobodyMisplaced, me, Sched

\* Nobody waits on a group, so senders find no owner to resume.
LEMMA NobodyWoken ==
  ASSUME BaseInv, CountersInv, NEW c \in Chans, NEW s
  PROVE  WakeOwner(s, c) = s
<1>1. chan[c].cgroup \in Groups \cup {NULL}
  BY ChannelOf DEF BaseInv, IndInv
<1>2. \A g \in Groups : ~grp[g].blocked
  BY DEF BaseInv, IndInv, BlockedOwnersWait, CountersInv, DyingCounted
<1> QED
  BY <1>1, <1>2 DEF WakeOwner

LEMMA YieldNullCounted ==
  ASSUME NEW k \in Sched, ListsSound(k), Counted(k), k.current_thread \in Threads
  PROVE  Counted(lwt_yield_null(k)) /\ lwt_yield_null(k).zombie_counter = k.zombie_counter
  BY YieldNullView, ReorderedCounted DEF ListsSound, Reordered, SameCounters

LEMMA YieldToCounted ==
  ASSUME NEW k \in Sched, ListsSound(k), Counted(k), k.current_thread # NULL, NEW t \in Threads
  PROVE  Counted(lwt_yield_to(k, t)) /\ lwt_yield_to(k, t).zombie_counter = k.zombie_counter
<1>1. Busy(k)
  BY DEF Busy
<1> QED
  BY <1>1, YieldToView, ReorderedCounted DEF Reordered, SameCounters

LEMMA ResumeCounted ==
  ASSUME NEW k \in Sched, ListsSound(k), Counted(k), NEW t \in Threads, t # k.current_thread,
         k.state[t] = "LWT_BLOCKED"
  PROVE  LET m == resume_thread(k, t)
         IN  /\ m \in Sched /\ ListsSound(m) /\ Counted(m)
             /\ m.current_thread = k.current_thread /\ m.zombie_counter = k.zombie_counter
<1>1. Resumed(k, resume_thread(k, t), t)
  BY ResumeView
<1> QED
  BY <1>1, ResumedCounted, ResumeSound DEF Gone, Resumed

LEMMA BlockCounted ==
  ASSUME NEW k \in Sched, ListsSound(k), Counted(k), NEW t \in Threads, t = k.current_thread,
         NEW block_for \in BlockStatus, NEW c, block_for = "BLOCKED_SENDING" => c \in Chans
  PROVE  LET m == block_thread(k, block_for, c)
         IN  Counted(m) /\ m.zombie_counter = k.zombie_counter
<1> DEFINE m == block_thread(k, block_for, c)
<1>1. Blocked(k, m, t, block_for, c)
  BY BlockView
<1>2. k.state[t] # "LWT_BLOCKED"
  BY SchedAssumption DEF ListsSound, CurrentRuns
<1> HIDE DEF m
<1>3. Counted(m)
  BY <1>1, <1>2, BlockedCounted
<1>4. m.zombie_counter = k.zombie_counter
  BY <1>1 DEF Blocked
<1> QED
  BY <1>3, <1>4 DEF m

LEMMA AfterSndCounted ==
  ASSUME NEW s \in Sched, ListsSound(s), Counted(s), NEW t \in Threads, t = s.current_thread,
         NEW call \in SndCalls
  PROVE  /\ Counted(AfterSnd(call, s))
         /\ AfterSnd(call, s).zombie_counter =
              IF call = "lwt_die" THEN s.zombie_counter - 1 ELSE s.zombie_counter
<1>1. CASE call = "lwt_snd"
  BY <1>1 DEF AfterSnd
<1>2. CASE call = "lwt_snd_chan"
  BY <1>2, YieldNullCounted DEF AfterSnd
<1>3. CASE call = "lwt_die"
  <2>1. Buried(s, SchedDead(s), t)
    BY DeadView
  <2>2. s.state[t] # "LWT_BLOCKED"
    BY SchedAssumption DEF ListsSound, CurrentRuns
  <2>3. Counted(SchedDead(s)) /\ SchedDead(s).zombie_counter = s.zombie_counter - 1
    BY <2>1, <2>2, BuriedCounted DEF Buried
  <2> QED
    BY <1>3, <2>3 DEF AfterSnd
<1> QED
  BY <1>1, <1>2, <1>3 DEF SndCalls

LEMMA SndReturnsCounted ==
  ASSUME BaseInv, CountersInv, me # NULL, pc[me] = "client", NEW k \in SndCalls,
         NEW s \in Sched, ListsSound(s), Counted(s), s.current_thread = me,
         s.zombie_counter = IF k = "lwt_die" THEN sched.zombie_counter + 1
                                             ELSE sched.zombie_counter,
         SndReturns(s, k)
  PROVE  CountersInv'
<1>1. sched' = AfterSnd(k, s) /\ pc' = [pc EXCEPT ![me] = "client"]
  BY DEF SndReturns
<1>2. me \in Threads /\ pc \in [Threads -> Places] /\ sched.zombie_counter \in Int
  BY CountersFacts
<1>3. Counted(sched') /\ sched'.zombie_counter = sched.zombie_counter
  BY <1>1, <1>2, AfterSndCounted
<1>4. DyingCounted(sched.zombie_counter, pc')
  BY <1>1, <1>2, PlaceCounted DEF CountersInv
<1> QED
  BY <1>3, <1>4 DEF CountersInv

LEMMA SndCounted ==
  ASSUME BaseInv, CountersInv, me # NULL, pc[me] = "client", NEW k \in SndCalls, NEW c \in Chans,
         NEW s \in Sched, ListsSound(s), Counted(s), s.current_thread = me,
         s.state = sched.state,
         s.zombie_counter = IF k = "lwt_die" THEN sched.zombie_counter + 1
                                             ELSE sched.zombie_counter,
         NEW th, NEW v, Snd(s, th, c, v, k)
  PROVE  CountersInv'
<1>1. /\ me \in Threads /\ pc \in [Threads -> Places] /\ sched.zombie_counter \in Int
      /\ sched.state[me] = "LWT_RUNNING"
  BY CountersFacts
<1>2. CASE SndNoReceiver(s, th, c, k)
  BY <1>2, SndReturnsCounted DEF SndNoReceiver
<1>3. CASE SndHandOff(s, th, c, v, k)
  <2>1. PICK r \in Threads : r = chan[c].receiver
    BY <1>3, ChannelOf DEF SndHandOff, BaseInv, IndInv
  <2>2. s.state[r] = "LWT_BLOCKED" /\ r # s.current_thread
    BY <1>1, <1>3, <2>1 DEF SndHandOff, ReceiverWaits
  <2> DEFINE m == resume_thread(s, r)
  <2>3. /\ m \in Sched /\ ListsSound(m) /\ Counted(m)
        /\ m.current_thread = s.current_thread /\ m.zombie_counter = s.zombie_counter
    BY <2>2, ResumeCounted
  <2>4. SndReturns(m, k)
    BY <1>3, <2>1 DEF SndHandOff
  <2> HIDE DEF m
  <2> QED
    BY <2>3, <2>4, SndReturnsCounted
<1>4. CASE SndBuffer(s, th, c, v, k)
  <2>1. SndReturns(s, k)
    BY <1>4, NobodyWoken DEF SndBuffer
  <2> QED
    BY <2>1, SndReturnsCounted
<1>5. CASE SndBlock(s, th, c, v, k)
  <2> DEFINE m == block_thread(s, "BLOCKED_SENDING", c)
  <2>1. sched' = m /\ pc' = [pc EXCEPT ![me] = k]
    BY <1>5, NobodyWoken DEF SndBlock
  <2>2. Counted(m) /\ m.zombie_counter = s.zombie_counter
    BY <1>1, BlockCounted DEF BlockStatus
  <2> HIDE DEF m
  <2>3. DyingCounted(s.zombie_counter, pc')
    <3>1. k # "lwt_cgrp_wait"
      BY DEF SndCalls
    <3> QED
      BY <1>1, <2>1, <3>1, PlaceCounted DEF CountersInv
  <2> QED
    BY <2>1, <2>2, <2>3 DEF CountersInv
<1> QED
  BY <1>2, <1>3, <1>4, <1>5 DEF Snd

LEMMA SendsCounted ==
  ASSUME BaseInv, CountersInv,
         \/ \E c \in Chans, v \in Data : lwt_snd(c, v)
         \/ \E c, x \in Chans : lwt_snd_chan(c, x)
         \/ \E v \in Data : lwt_die(v)
         \/ SndResumes
  PROVE  CountersInv'
<1>1. ASSUME NEW c \in Chans, NEW v \in Data, lwt_snd(c, v)
      PROVE  CountersInv'
  <2>1. me # NULL /\ pc[me] = "client" /\ Snd(sched, thd, c, v, "lwt_snd")
    BY <1>1 DEF lwt_snd, Client
  <2> QED
    BY <2>1, CountersFacts, SndCounted DEF CountersInv, SndCalls
<1>2. ASSUME NEW c \in Chans, NEW x \in Chans, lwt_snd_chan(c, x)
      PROVE  CountersInv'
  <2>1. me # NULL /\ pc[me] = "client" /\ Snd(sched, thd, c, x, "lwt_snd_chan")
    BY <1>2 DEF lwt_snd_chan, Client
  <2> QED
    BY <2>1, CountersFacts, SndCounted DEF CountersInv, SndCalls
<1>3. ASSUME NEW v \in Data, lwt_die(v)
      PROVE  CountersInv'
  <2> DEFINE s == SchedDying(sched)
             th == [thd EXCEPT ![me].message_data = v]
             c == thd[me].chl
  <2>1. /\ me # NULL /\ pc[me] = "client" /\ me # MainThread
        /\ Snd(s, th, c, v, "lwt_die")
    BY <1>3 DEF lwt_die, Client
  <2>2. c \in Chans /\ sched \in Sched /\ ListsSound(sched) /\ sched.current_thread = me
    BY <2>1, CurrentIsThread, CountersFacts DEF BaseInv
  <2>3. /\ s \in Sched /\ ListsSound(s) /\ s.state = sched.state /\ s.current_thread = me
        /\ s.block_for = sched.block_for /\ s.zombie_counter = sched.zombie_counter + 1
        /\ s.block_counter = sched.block_counter
        /\ s.nrcving = sched.nrcving /\ s.nsnding = sched.nsnding
    BY <2>2, DyingSound, DyingView
  <2> HIDE DEF s, th, c
  <2>4. Counted(s)
    BY <2>3, SameBlockedCounted DEF CountersInv
  <2> QED
    BY <2>1, <2>2, <2>3, <2>4, SndCounted DEF SndCalls
<1>4. CASE SndResumes
  <2>1. /\ me # NULL /\ pc[me] \in SndCalls /\ sched' = AfterSnd(pc[me], sched)
        /\ pc' = [pc EXCEPT ![me] = "client"]
    BY <1>4 DEF SndResumes, SndReturns, SndCalls
  <2>2. /\ sched \in Sched /\ ListsSound(sched) /\ sched.current_thread = me /\ me \in Threads
        /\ pc \in [Threads -> Places] /\ sched.zombie_counter \in Int
    BY <2>1, CountersFacts
  <2>3. /\ Counted(sched')
        /\ sched'.zombie_counter = IF pc[me] = "lwt_die" THEN sched.zombie_counter - 1
                                                         ELSE sched.zombie_counter
    <3>1. Counted(sched) /\ me = sched.current_thread
      BY <2>2 DEF CountersInv
    <3>2. Counted(AfterSnd(pc[me], sched))
      BY <2>1, <2>2, <3>1, AfterSndCounted
    <3>3. AfterSnd(pc[me], sched).zombie_counter =
            IF pc[me] = "lwt_die" THEN sched.zombie_counter - 1 ELSE sched.zombie_counter
      BY <2>1, <2>2, <3>1, AfterSndCounted
    <3> QED
      BY <2>1, <3>2, <3>3
  <2>4. DyingCounted(sched'.zombie_counter, pc')
    BY <2>1, <2>2, <2>3, PlaceCounted DEF CountersInv
  <2> QED
    BY <2>3, <2>4 DEF CountersInv
<1> QED
  BY <1>1, <1>2, <1>3, <1>4

\* lwt_rcv returns, s being what it left of the scheduler.
LEMMA RcvReturnsCounted ==
  ASSUME BaseInv, CountersInv, me # NULL, pc[me] \in RcvCalls \cup {"client"},
         NEW k \in RcvCalls, NEW x, k = "lwt_join" => x \in Threads,
         NEW s \in Sched, ListsSound(s), Counted(s), s.current_thread = me,
         s.zombie_counter = sched.zombie_counter,
         NEW c, NEW v, NEW ch, RcvReturns(c, v, k, x, s, ch)
  PROVE  CountersInv'
<1> DEFINE w == IF k = "lwt_join" THEN "lwt_join_yield" ELSE "client"
<1>1. /\ sched' = IF k = "lwt_join" THEN lwt_yield_to(s, x) ELSE s
      /\ pc' = [pc EXCEPT ![me] = w]
  BY DEF RcvReturns
<1>2. me \in Threads /\ pc \in [Threads -> Places] /\ sched.zombie_counter \in Int
  BY CountersFacts
<1>3. Counted(sched') /\ sched'.zombie_counter = sched.zombie_counter
  BY <1>1, YieldToCounted
<1>4. DyingCounted(sched.zombie_counter, pc')
  <2>1. w # "lwt_cgrp_wait" /\ (pc[me] = "lwt_die" <=> w = "lwt_die")
    BY DEF RcvCalls
  <2> HIDE DEF w
  <2> QED
    BY <1>1, <1>2, <2>1, PlaceCounted DEF CountersInv
<1> QED
  BY <1>3, <1>4 DEF CountersInv

LEMMA RcvCounted ==
  ASSUME BaseInv, CountersInv, me # NULL, pc[me] = "client", NEW k \in RcvCalls, NEW x,
         k = "lwt_join" => x \in Threads, NEW c \in Chans, Rcv(c, k, x)
  PROVE  CountersInv'
<1> DEFINE senders == sched.queue[c]
           m == resume_thread(sched, Head(senders))
<1>1. /\ sched \in Sched /\ ListsSound(sched) /\ sched.current_thread = me /\ me \in Threads
      /\ pc \in [Threads -> Places] /\ sched.zombie_counter \in Int /\ Counted(sched)
  BY CountersFacts DEF CountersInv
<1>2. ASSUME senders # << >>
      PROVE  /\ m \in Sched /\ ListsSound(m) /\ Counted(m)
             /\ m.current_thread = me /\ m.zombie_counter = sched.zombie_counter
  <2>1. PICK h \in Threads : h = Head(senders) /\ h # me /\ OnList(sched.queue, c, h)
    BY <1>2, FirstSenderResumed
  <2>2. sched.state[h] = "LWT_BLOCKED"
    BY <1>1, <2>1 DEF ListsSound, Placed
  <2> QED
    BY <1>1, <2>1, <2>2, ResumeCounted
<1> HIDE DEF m
<1>3. CASE RcvBuffer(c, k, x)
  <2>1. PICK s, v, ch : /\ s = IF senders = << >> THEN sched ELSE m
                        /\ RcvReturns(c, v, k, x, s, ch)
    BY <1>3 DEF RcvBuffer, m
  <2>2. /\ s \in Sched /\ ListsSound(s) /\ Counted(s)
        /\ s.current_thread = me /\ s.zombie_counter = sched.zombie_counter
    BY <1>1, <1>2, <2>1
  <2> QED
    BY <2>1, <2>2, RcvReturnsCounted
<1>4. CASE RcvSender(c, k, x)
  <2>1. PICK v, ch : RcvReturns(c, v, k, x, m, ch)
    BY <1>4 DEF RcvSender, m
  <2>2. senders # << >>
    BY <1>4 DEF RcvSender
  <2> QED
    BY <1>2, <2>1, <2>2, RcvReturnsCounted
<1>5. CASE RcvBlock(c, k)
  <2> DEFINE b == block_thread(sched, "BLOCKED_RECEIVING", c)
  <2>1. sched' = b /\ pc' = [pc EXCEPT ![me] = k]
    BY <1>5 DEF RcvBlock
  <2>2. Counted(b) /\ b.zombie_counter = sched.zombie_counter
    BY <1>1, BlockCounted DEF BlockStatus
  <2> HIDE DEF b
  <2>3. DyingCounted(sched.zombie_counter, pc')
    <3>1. k # "lwt_cgrp_wait" /\ k # "lwt_die"
      BY DEF RcvCalls
    <3> QED
      BY <1>1, <2>1, <3>1, PlaceCounted DEF CountersInv
  <2> QED
    BY <2>1, <2>2, <2>3 DEF CountersInv
<1> QED
  BY <1>3, <1>4, <1>5 DEF Rcv

LEMMA StillCounted ==
  ASSUME CountersInv, UNCHANGED << sched, pc >>
  PROVE  CountersInv'
  BY DEF CountersInv

LEMMA ReceivesCounted ==
  ASSUME BaseInv, CountersInv,
         \/ \E c \in Chans : lwt_rcv(c) \/ lwt_rcv_chan(c)
         \/ \E t \in Threads : lwt_join(t)
         \/ RcvResumes \/ JoinReturns
  PROVE  CountersInv'
<1>1. ASSUME NEW c \in Chans, lwt_rcv(c) \/ lwt_rcv_chan(c)
      PROVE  CountersInv'
  <2>1. PICK k \in {"lwt_rcv", "lwt_rcv_chan"} :
               me # NULL /\ pc[me] = "client" /\ Rcv(c, k, NULL)
    BY <1>1 DEF lwt_rcv, lwt_rcv_chan, Client
  <2> QED
    BY <2>1, RcvCounted DEF RcvCalls
<1>2. ASSUME NEW t \in Threads, lwt_join(t)
      PROVE  CountersInv'
  <2>1. me # NULL /\ pc[me] = "client" /\ me \in Threads
    BY <1>2, CurrentIsThread DEF lwt_join, Client, BaseInv
  <2>2. CASE UNCHANGED vars
    BY <2>2, StillCounted DEF vars
  <2>3. CASE thd[t].parent = me /\ Rcv(thd[t].chl, "lwt_join", t)
    <3>1. thd[t].chl \in Chans
      BY <2>1, <2>3 DEF BaseInv, IndInv, ThreadsInv
    <3> QED
      BY <2>1, <2>3, <3>1, RcvCounted DEF RcvCalls
  <2> QED
    BY <1>2, <2>2, <2>3 DEF lwt_join
<1>3. CASE RcvResumes
  <2>1. /\ me # NULL /\ pc[me] \in RcvCalls
        /\ RcvReturns(thd[me].now_rcving, thd[me].message_data, pc[me], arg[me], sched, chan)
    BY <1>3 DEF RcvResumes, InRcv, RcvCalls
  <2>2. /\ sched \in Sched /\ ListsSound(sched) /\ sched.current_thread = me /\ Counted(sched)
        /\ (pc[me] = "lwt_join" => arg[me] \in Threads)
    BY <2>1, CountersFacts DEF CountersInv, BaseInv, IndInv, ThreadsInv
  <2> QED
    BY <2>1, <2>2, RcvReturnsCounted
<1>4. CASE JoinReturns
  <2>1. /\ me # NULL /\ pc[me] = "lwt_join_yield" /\ pc' = [pc EXCEPT ![me] = "client"]
        /\ sched' = sched
    BY <1>4 DEF JoinReturns
  <2>2. me \in Threads /\ pc \in [Threads -> Places] /\ sched.zombie_counter \in Int
    BY <2>1, CountersFacts
  <2>3. DyingCounted(sched.zombie_counter, pc')
    BY <2>1, <2>2, PlaceCounted DEF CountersInv
  <2> QED
    BY <2>1, <2>3 DEF CountersInv
<1> QED
  BY <1>1, <1>2, <1>3, <1>4

LEMMA CreateCounted ==
  ASSUME BaseInv, CountersInv, me # NULL, NEW t \in Threads, NEW x \in Chans,
         NEW nojoin, NEW given, Create(t, x, nojoin, given)
  PROVE  CountersInv'
<1> DEFINE m == [SchedCreate(sched, t) EXCEPT !.queue = list_head_init(@, x)]
<1>1. sched' = m /\ pc' = [pc EXCEPT ![t] = "client"]
  BY DEF Create
<1>2. /\ sched \in Sched /\ ListsSound(sched) /\ pc \in [Threads -> Places]
      /\ sched.zombie_counter \in Int
  BY CountersFacts
<1>3. sched.state[t] \in Gone /\ pc[t] = "client"
  BY AllocatesGone DEF Create, BaseInv
<1>4. Created(sched, m, t, x)
  BY <1>2, <1>3, CreateView
<1> HIDE DEF m
<1>5. Counted(m) /\ m.zombie_counter = sched.zombie_counter
  <2>1. \A u \in Threads : m.state[u] = "LWT_BLOCKED" <=> sched.state[u] = "LWT_BLOCKED"
    BY <1>3, <1>4 DEF Created, Gone
  <2> QED
    BY <1>4, <2>1, SameBlockedCounted DEF Created, SameCounters, CountersInv
<1>6. DyingCounted(sched.zombie_counter, pc')
  BY <1>1, <1>2, <1>3, PlaceCounted DEF CountersInv
<1> QED
  BY <1>1, <1>5, <1>6 DEF CountersInv

LEMMA MakesCounted ==
  ASSUME BaseInv, CountersInv,
         \/ \E t \in Threads, x \in Chans, nojoin \in BOOLEAN : lwt_create(t, x, nojoin)
         \/ \E t \in Threads, x, c \in Chans : lwt_create_chan(t, x, c)
         \/ \E c \in Chans, size \in Sizes : lwt_chan(c, size)
         \/ \E t \in Threads \cup {NULL} : lwt_yield(t)
  PROVE  CountersInv'
<1>1. ASSUME NEW t \in Threads, NEW x \in Chans, NEW nojoin \in BOOLEAN, lwt_create(t, x, nojoin)
      PROVE  CountersInv'
  BY <1>1, CreateCounted DEF lwt_create, Client
<1>2. ASSUME NEW t \in Threads, NEW x \in Chans, NEW c \in Chans, lwt_create_chan(t, x, c)
      PROVE  CountersInv'
  BY <1>2, CreateCounted DEF lwt_create_chan, Client
<1>3. ASSUME NEW c \in Chans, NEW size \in Sizes, lwt_chan(c, size)
      PROVE  CountersInv'
  <2> DEFINE m == [sched EXCEPT !.queue = list_head_init(@, c)]
  <2>1. me # NULL /\ sched' = m /\ pc' = pc
    BY <1>3 DEF lwt_chan, Client
  <2>2. m.state = sched.state /\ m.block_for = sched.block_for /\ SameCounters(sched, m)
    BY <2>1, CountersFacts, EmptiedView
  <2> HIDE DEF m
  <2>3. Counted(m)
    BY <2>2, SameBlockedCounted DEF SameCounters, CountersInv
  <2> QED
    BY <2>1, <2>2, <2>3 DEF CountersInv, SameCounters
<1>4. ASSUME NEW t \in Threads \cup {NULL}, lwt_yield(t)
      PROVE  CountersInv'
  <2>1. /\ me # NULL /\ pc' = pc
        /\ sched' = IF t = NULL THEN lwt_yield_null(sched) ELSE lwt_yield_to(sched, t)
    BY <1>4 DEF lwt_yield, Client
  <2>2. /\ sched \in Sched /\ ListsSound(sched) /\ Counted(sched)
        /\ sched.current_thread \in Threads /\ sched.current_thread # NULL
    BY <2>1, CountersFacts DEF CountersInv
  <2>3. Counted(sched') /\ sched'.zombie_counter = sched.zombie_counter
    <3>1. CASE t = NULL
      BY <2>1, <2>2, <3>1, YieldNullCounted
    <3>2. CASE t \in Threads /\ t # NULL
      BY <2>1, <2>2, <3>2, YieldToCounted
    <3> QED
      BY <3>1, <3>2
  <2> QED
    BY <2>1, <2>3 DEF CountersInv
<1> QED
  BY <1>1, <1>2, <1>3, <1>4

LEMMA GroupsCounted ==
  ASSUME "lwt_cgrp_wait" \notin Ops, CountersInv, IndInv, GroupStep
  PROVE  CountersInv'
<1>1. \A g \in Groups : ~lwt_cgrp_wait(g)
  BY DEF lwt_cgrp_wait, Client
<1>2. ~WaitResumes
  BY CurrentIsThread DEF WaitResumes, CountersInv, DyingCounted
<1>3. UNCHANGED << sched, pc >>
  BY <1>1, <1>2
     DEF GroupStep, lwt_cgrp, lwt_cgrp_add, lwt_cgrp_rem, lwt_cgrp_free, vars
<1> QED
  BY <1>3, StillCounted

LEMMA InitCounters == Init => CountersInv
<1> SUFFICES ASSUME Init
             PROVE  CountersInv
  OBVIOUS
<1>1. sched = SchedInit /\ pc = [t \in Threads |-> "client"]
  BY DEF Init
<1>2. \A why : BlockedFor(sched, why) = {}
  BY <1>1 DEF BlockedFor, SchedInit
<1>3. {t \in Threads : pc[t] = "lwt_die"} = {} /\ \A t \in Threads : pc[t] # "lwt_cgrp_wait"
  BY <1>1
<1>4. /\ sched.nrcving = 0 /\ sched.nsnding = 0 /\ sched.block_counter = 0
      /\ sched.zombie_counter = 0
  BY <1>1 DEF SchedInit
<1> QED
  BY <1>2, <1>3, <1>4, FS_EmptySet DEF CountersInv, Counted, DyingCounted

LEMMA NextCounters ==
  ASSUME "lwt_cgrp_wait" \notin Ops, BaseInv, CountersInv, [Next]_vars
  PROVE  CountersInv'
<1>1. CASE ThreadStep
  BY <1>1, MakesCounted, ReceivesCounted, SendsCounted DEF ThreadStep
<1>2. CASE ChanStep
  <2>1. ASSUME NEW c \in Chans, lwt_chan_deref(c)
        PROVE  CountersInv'
    BY <2>1, StillCounted DEF lwt_chan_deref
  <2> QED
    BY <1>2, <2>1, MakesCounted, ReceivesCounted, SendsCounted DEF ChanStep
<1>3. CASE GroupStep
  BY <1>3, GroupsCounted DEF BaseInv
<1>4. CASE UNCHANGED vars
  BY <1>4, StillCounted DEF vars
<1> QED
  BY <1>1, <1>2, <1>3, <1>4 DEF Next

\* lwt_info counts what is there: __block_thread and __resume_thread, lwt_die
\* twice, and nothing else keep the four counters equal to the numbers of
\* threads they stand for, as long as the clients do not call lwt_cgrp_wait,
\* whose owners senders resume more than once.
THEOREM InfoCounts ==
  ASSUME "lwt_cgrp_wait" \notin Ops
  PROVE  Spec => []CountersExact
<1>1. Init => CountersInv
  BY InitCounters
<1>2. BaseInv /\ CountersInv /\ [Next]_vars => CountersInv'
  BY NextCounters
<1>3. CountersInv => CountersExact
  BY DEF CountersInv, Counted, DyingCounted, BlockedFor, CountersExact
<1> QED
  BY <1>1, <1>2, <1>3, BaseInvHolds, PTL DEF Spec
=============================================================================
