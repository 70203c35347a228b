----------------------------- MODULE LwtProofs -----------------------------
(***************************************************************************)
(* Type correctness of Lwt, that no thread is ever misplaced, that         *)
(* cgrp->blocked always names a thread that waits, and that groups and     *)
(* channels agree on who is in which group, for any number of threads,     *)
(* channels and groups and any client of the discipline, whichever of the  *)
(* rules of Careless it breaks.                                            *)
(*                                                                         *)
(* The first three are not inductive alone: __resume_thread keeps the      *)
(* lists sound only if the thread it is given is alive and not the         *)
(* current one, which for the owner of a group follows from                *)
(* BlockedOwnersWait, and for that invariant to survive lwt_create the     *)
(* block of a dead thread must not be inside an API function               *)
(* (ThreadsInv).                                                           *)
(***************************************************************************)
EXTENDS LwtProps, LwtSchedProofs

\* Dead threads are inside no function; threads other than the main one have
\* a channel; lwt_join is inside for a thread.
ThreadsInv ==
  \A t \in Threads :
     /\ sched.state[t] \in Gone => pc[t] = "client"
     /\ t # MainThread /\ sched.state[t] # "UNUSED" => thd[t].chl \in Chans
     /\ thd[t].parent # NULL => thd[t].chl \in Chans
     /\ pc[t] = "lwt_join" => arg[t] \in Threads

IndInv == TypeOK /\ NobodyMisplaced /\ ThreadsInv /\ BlockedOwnersWait

-----------------------------------------------------------------------------
(* Types.                                                                   *)

LEMMA ChannelUpdates ==
  ASSUME NEW r \in Channel
  PROVE  /\ \A b \in BOOLEAN : [r EXCEPT !.ready = b] \in Channel
         /\ \A b \in BOOLEAN : [r EXCEPT !.live = b] \in Channel
         /\ \A q \in Seq(Values \cup {NULL}) : [r EXCEPT !.buffer = q] \in Channel
         /\ \A t \in Threads \cup {NULL} : [r EXCEPT !.receiver = t] \in Channel
         /\ \A n \in Int : [r EXCEPT !.snd_cnt = n] \in Channel
         /\ \A g \in Groups \cup {NULL} : [r EXCEPT !.cgroup = g] \in Channel
  BY DEF Channel

LEMMA ChannelOf ==
  ASSUME TypeOK, NEW c \in Chans
  PROVE  /\ chan[c] \in Channel
         /\ chan[c].receiver \in Threads \cup {NULL} /\ chan[c].snd_cnt \in Int
         /\ chan[c].buffer \in Seq(Values \cup {NULL}) /\ chan[c].cgroup \in Groups \cup {NULL}
         /\ chan[c].ready \in BOOLEAN
  BY DEF TypeOK, Channel

LEMMA DataSet ==
  ASSUME NEW th \in [Threads -> ThreadFields], NEW t \in Threads, NEW v \in Values \cup {NULL}
  PROVE  LET m == [th EXCEPT ![t].message_data = v]
         IN  /\ m \in [Threads -> ThreadFields]
             /\ \A u \in Threads : m[u].chl = th[u].chl /\ m[u].parent = th[u].parent
<1> DEFINE r == [th[t] EXCEPT !.message_data = v]
<1>1. th[t] \in ThreadFields
  OBVIOUS
<1>2. r \in ThreadFields /\ r.chl = th[t].chl /\ r.parent = th[t].parent
  BY <1>1 DEF ThreadFields
<1>3. [th EXCEPT ![t].message_data = v] = [th EXCEPT ![t] = r]
  OBVIOUS
<1> HIDE DEF r
<1> QED
  BY <1>2, <1>3

\* Taking the head of a sequence, or its tail.
LEMMA HeadTail ==
  ASSUME NEW S, NEW s \in Seq(S), s # << >>
  PROVE  Head(s) \in S /\ Tail(s) \in Seq(S) /\ Len(s) >= 1 /\ s[1] = Head(s)
  OBVIOUS

-----------------------------------------------------------------------------
(* Steps of the current thread that neither make nor end another thread.    *)

OwnStep ==
  /\ \A u \in Threads \ {me} :
       /\ pc'[u] = pc[u] /\ arg'[u] = arg[u]
       /\ sched.state[u] \in Gone \/ sched'.state[u] \in Gone =>
            sched'.state[u] = sched.state[u]
  /\ \A u \in Threads : thd'[u].chl = thd[u].chl /\ thd'[u].parent = thd[u].parent
  /\ sched'.state[me] \in Gone => pc'[me] = "client"
  /\ pc'[me] = "lwt_join" => arg'[me] \in Threads
  /\ pc'[me] = "lwt_cgrp_wait" =>
       arg'[me] \in Groups /\ grp'[arg'[me]].live /\ grp'[arg'[me]].owner = me
  /\ \A g \in Groups : grp'[g].blocked =>
       \/ grp[g].blocked /\ grp'[g].owner = grp[g].owner /\ grp[g].owner # me
       \/ grp'[g].owner = me /\ pc'[me] = "lwt_cgrp_wait" /\ arg'[me] = g
  /\ \A g \in Groups : grp[g].live /\ grp[g].owner # me =>
       grp'[g].live /\ grp'[g].owner = grp[g].owner

LEMMA CurrentIsThread ==
  ASSUME IndInv, me # NULL
  PROVE  /\ me \in Threads /\ sched.state[me] = "LWT_RUNNING"
         /\ sched.state[me] \notin Gone
         /\ me # MainThread => thd[me].chl \in Chans
<1>1. me \in Threads
  BY DEF IndInv, TypeOK, Sched, me
<1>2. sched.state[me] = "LWT_RUNNING"
  BY DEF IndInv, NobodyMisplaced, ListsSound, CurrentRuns, me
<1> QED
  BY <1>1, <1>2 DEF IndInv, ThreadsInv, Gone

LEMMA OwnStepKeeps ==
  ASSUME IndInv, me # NULL, OwnStep
  PROVE  ThreadsInv' /\ BlockedOwnersWait'
<1>0. me \in Threads /\ sched.state[me] = "LWT_RUNNING"
  BY CurrentIsThread
<1>1. ThreadsInv'
  <2> SUFFICES ASSUME NEW t \in Threads
               PROVE  /\ sched'.state[t] \in Gone => pc'[t] = "client"
                      /\ t # MainThread /\ sched'.state[t] # "UNUSED" => thd'[t].chl \in Chans
                      /\ thd'[t].parent # NULL => thd'[t].chl \in Chans
                      /\ pc'[t] = "lwt_join" => arg'[t] \in Threads
    BY DEF ThreadsInv
  <2>1. /\ sched.state[t] \in Gone => pc[t] = "client"
        /\ t # MainThread /\ sched.state[t] # "UNUSED" => thd[t].chl \in Chans
        /\ thd[t].parent # NULL => thd[t].chl \in Chans
        /\ pc[t] = "lwt_join" => arg[t] \in Threads
    BY DEF IndInv, ThreadsInv
  <2>2. thd'[t].chl = thd[t].chl /\ thd'[t].parent = thd[t].parent
    BY DEF OwnStep
  <2>3. CASE t = me
    BY <1>0, <2>1, <2>2, <2>3 DEF OwnStep
  <2>4. CASE t # me
    <3>1. /\ pc'[t] = pc[t] /\ arg'[t] = arg[t]
          /\ sched.state[t] \in Gone \/ sched'.state[t] \in Gone =>
               sched'.state[t] = sched.state[t]
      BY <2>4 DEF OwnStep
    <3> QED
      BY <2>1, <2>2, <3>1 DEF Gone
  <2> QED
    BY <2>3, <2>4
<1>2. ASSUME NEW g \in Groups, grp'[g].blocked
      PROVE  /\ grp'[g].owner \in Threads
             /\ pc'[grp'[g].owner] = "lwt_cgrp_wait" /\ arg'[grp'[g].owner] = g
  BY <1>0, <1>2 DEF IndInv, BlockedOwnersWait, OwnStep
<1>3. ASSUME NEW t \in Threads, pc'[t] = "lwt_cgrp_wait"
      PROVE  arg'[t] \in Groups /\ grp'[arg'[t]].live /\ grp'[arg'[t]].owner = t
  BY <1>0, <1>3 DEF IndInv, BlockedOwnersWait, OwnStep
<1> QED
  BY <1>1, <1>2, <1>3 DEF BlockedOwnersWait

\* The same for a step that does not touch groups.
LEMMA PlainStepOwn ==
  ASSUME IndInv, me # NULL, pc[me] # "lwt_cgrp_wait",
         NEW p, p # "lwt_cgrp_wait", pc' = [pc EXCEPT ![me] = p],
         p = "lwt_join" => arg'[me] \in Threads,
         \A u \in Threads \ {me} : arg'[u] = arg[u],
         UNCHANGED grp,
         sched'.state[me] \in Gone => p = "client",
         \A u \in Threads \ {me} : sched.state[u] \in Gone \/ sched'.state[u] \in Gone =>
            sched'.state[u] = sched.state[u],
         \A u \in Threads : thd'[u].chl = thd[u].chl /\ thd'[u].parent = thd[u].parent
  PROVE  OwnStep
<1>1. me \in Threads /\ pc \in [Threads -> Places]
  BY CurrentIsThread DEF IndInv, TypeOK
<1>2. pc'[me] = p /\ \A u \in Threads \ {me} : pc'[u] = pc[u]
  BY <1>1
<1>3. \A g \in Groups : grp[g].blocked => grp[g].owner # me
  BY DEF IndInv, BlockedOwnersWait
<1> QED
  BY <1>1, <1>2, <1>3 DEF OwnStep

-----------------------------------------------------------------------------
(* Sending.                                                                 *)

SndCalls == {"lwt_snd", "lwt_snd_chan", "lwt_die"}

LEMMA WakeOwnerSound ==
  ASSUME IndInv, me # NULL, pc[me] # "lwt_cgrp_wait", NEW c \in Chans,
         NEW s \in Sched, ListsSound(s), s.current_thread = me, SameThreads(sched, s)
  PROVE  LET m == WakeOwner(s, c)
         IN  /\ m \in Sched /\ ListsSound(m) /\ m.current_thread = me
             /\ SameThreads(sched, m) /\ NoNewSenders(s, m)
<1> DEFINE g == chan[c].cgroup
           m == WakeOwner(s, c)
<1>1. CASE g # NULL /\ grp[g].blocked
  <2>1. g \in Groups
    BY <1>1, ChannelOf DEF IndInv
  <2>2. PICK t \in Threads : t = grp[g].owner /\ pc[t] = "lwt_cgrp_wait"
    BY <1>1, <2>1 DEF IndInv, BlockedOwnersWait
  <2>3. t # s.current_thread
    BY <2>2
  <2>4. sched.state[t] \notin Gone
    BY <2>2 DEF IndInv, ThreadsInv
  <2>5. s.state[t] \notin Gone
    BY <2>4 DEF SameThreads
  <2> DEFINE r == resume_thread(s, t)
  <2>6. /\ r \in Sched /\ ListsSound(r) /\ SameThreads(s, r) /\ NoNewSenders(s, r)
        /\ r.current_thread = s.current_thread
    BY <2>3, <2>5, ResumeSound
  <2>7. m = r
    BY <1>1, <2>2 DEF WakeOwner
  <2> HIDE DEF r, m
  <2> QED
    BY <2>6, <2>7, SameThreadsTransitive DEF m
<1>2. CASE ~(g # NULL /\ grp[g].blocked)
  <2>1. m = s
    BY <1>2 DEF WakeOwner
  <2> QED
    BY <2>1 DEF NoNewSenders
<1> QED
  BY <1>1, <1>2

LEMMA AfterSndSound ==
  ASSUME NEW s \in Sched, ListsSound(s), NEW t \in Threads, t = s.current_thread,
         NEW k \in SndCalls
  PROVE  LET m == AfterSnd(k, s)
         IN  /\ m \in Sched /\ ListsSound(m) /\ NoNewSenders(s, m)
             /\ \A u \in Threads \ {t} :
                  s.state[u] \in Gone \/ m.state[u] \in Gone => m.state[u] = s.state[u]
<1>1. CASE k = "lwt_snd"
  <2>1. AfterSnd(k, s) = s
    BY <1>1 DEF AfterSnd
  <2> QED
    BY <2>1 DEF NoNewSenders
<1>2. CASE k = "lwt_snd_chan"
  <2>1. AfterSnd(k, s) = lwt_yield_null(s)
    BY <1>2 DEF AfterSnd
  <2>2. Placed(s)
    BY DEF ListsSound
  <2> QED
    BY <2>1, <2>2, YieldNullSound DEF SameThreads
<1>3. CASE k = "lwt_die"
  <2>1. AfterSnd(k, s) = SchedDead(s)
    BY <1>3 DEF AfterSnd
  <2> QED
    BY <2>1, DeadSound
<1> QED
  BY <1>1, <1>2, <1>3 DEF SndCalls

LEMMA SndReturnsKeeps ==
  ASSUME IndInv, me # NULL, pc[me] # "lwt_cgrp_wait", NEW k \in SndCalls,
         NEW s \in Sched, ListsSound(s), s.current_thread = me, SameThreads(sched, s),
         SndReturns(s, k),
         thd' \in [Threads -> ThreadFields], chan' \in [Chans -> Channel],
         \A u \in Threads : thd'[u].chl = thd[u].chl /\ thd'[u].parent = thd[u].parent,
         UNCHANGED << grp, chl_list, arg, clientVars >>
  PROVE  IndInv'
<1>0. PICK t \in Threads : t = me
  BY CurrentIsThread
<1>1. pc' = [pc EXCEPT ![me] = "client"] /\ sched' = AfterSnd(k, s)
  BY DEF SndReturns
<1>2. /\ sched' \in Sched /\ ListsSound(sched')
      /\ \A u \in Threads \ {me} :
           s.state[u] \in Gone \/ sched'.state[u] \in Gone => sched'.state[u] = s.state[u]
  BY <1>0, <1>1, AfterSndSound
<1>3. \A u \in Threads \ {me} :
        sched.state[u] \in Gone \/ sched'.state[u] \in Gone => sched'.state[u] = sched.state[u]
  BY <1>2 DEF SameThreads
<1>4. OwnStep
  BY <1>1, <1>3, PlainStepOwn
<1>5. TypeOK'
  BY <1>1, <1>2 DEF IndInv, TypeOK, Places, clientVars
<1> QED
  BY <1>2, <1>4, <1>5, OwnStepKeeps DEF IndInv, NobodyMisplaced

\* lwt_snd itself, called by lwt_snd, lwt_snd_chan or lwt_die.
LEMMA SndKeeps ==
  ASSUME IndInv, me # NULL, pc[me] = "client", NEW k \in SndCalls,
         NEW c \in Chans, NEW v \in Values,
         NEW s \in Sched, ListsSound(s), s.current_thread = me, s.state = sched.state,
         NEW th \in [Threads -> ThreadFields],
         \A u \in Threads : th[u].chl = thd[u].chl /\ th[u].parent = thd[u].parent,
         Snd(s, th, c, v, k)
  PROVE  IndInv'
<1>0. PICK t \in Threads : t = me
  BY CurrentIsThread
<1>1. UNCHANGED << grp, chl_list, arg, clientVars >>
  BY DEF Snd
<1>2. chan \in [Chans -> Channel] /\ SameThreads(sched, s)
  BY DEF IndInv, TypeOK, SameThreads
<1>3. CASE SndNoReceiver(s, th, c, k)
  BY <1>1, <1>2, <1>3, SndReturnsKeeps DEF SndNoReceiver
<1>4. CASE SndHandOff(s, th, c, v, k)
  <2>1. PICK r \in Threads : r = chan[c].receiver /\ sched.state[r] = "LWT_BLOCKED"
    BY <1>4, ChannelOf DEF SndHandOff, ReceiverWaits, IndInv
  <2>2. r # s.current_thread /\ s.state[r] \notin Gone
    BY <2>1, CurrentIsThread DEF Gone
  <2> DEFINE m == resume_thread(s, r)
  <2>3. m \in Sched /\ ListsSound(m) /\ SameThreads(s, m) /\ m.current_thread = me
    BY <2>2, ResumeSound
  <2>4. SndReturns(m, k) /\ thd' = [th EXCEPT ![r].message_data = v] /\ UNCHANGED chan
    BY <1>4, <2>1 DEF SndHandOff
  <2>5. /\ thd' \in [Threads -> ThreadFields]
        /\ \A u \in Threads : thd'[u].chl = thd[u].chl /\ thd'[u].parent = thd[u].parent
    BY <2>4, DataSet
  <2> HIDE DEF m
  <2>6. SameThreads(sched, m)
    BY <1>2, <2>3, SameThreadsTransitive
  <2> QED
    BY <1>1, <1>2, <2>3, <2>4, <2>5, <2>6, SndReturnsKeeps
<1>5. CASE SndBuffer(s, th, c, v, k)
  <2> DEFINE m == WakeOwner(s, c)
             q == Append(chan[c].buffer, v)
             ch == [[chan[c] EXCEPT !.ready = TRUE] EXCEPT !.buffer = q]
  <2>1. m \in Sched /\ ListsSound(m) /\ SameThreads(sched, m) /\ m.current_thread = me
    BY <1>2, WakeOwnerSound
  <2>2. SndReturns(m, k) /\ thd' = th
    BY <1>5 DEF SndBuffer
  <2>3. chan' = [chan EXCEPT ![c] = ch]
    BY <1>5 DEF SndBuffer
  <2>4. q \in Seq(Values \cup {NULL})
    BY ChannelOf DEF IndInv
  <2> HIDE DEF q, m
  <2>5. [chan[c] EXCEPT !.ready = TRUE] \in Channel
    BY ChannelOf, ChannelUpdates DEF IndInv
  <2>6. ch \in Channel
    BY <2>4, <2>5, ChannelUpdates
  <2> HIDE DEF ch
  <2>7. chan' \in [Chans -> Channel]
    BY <1>2, <2>3, <2>6
  <2> QED
    BY <1>1, <2>1, <2>2, <2>7, SndReturnsKeeps
<1>6. CASE SndBlock(s, th, c, v, k)
  <2> DEFINE w == WakeOwner(s, c)
             m == block_thread(w, "BLOCKED_SENDING", c)
             ch == [chan[c] EXCEPT !.ready = TRUE]
  <2>1. w \in Sched /\ ListsSound(w) /\ SameThreads(sched, w) /\ w.current_thread = me
    BY <1>2, WakeOwnerSound
  <2>2. /\ sched' = m /\ chan' = [chan EXCEPT ![c] = ch]
        /\ thd' = [th EXCEPT ![me].message_data = v] /\ pc' = [pc EXCEPT ![me] = k]
    BY <1>6 DEF SndBlock
  <2> HIDE DEF w
  <2>3. "BLOCKED_SENDING" \in BlockStatus /\ w.current_thread \in Threads
    BY <1>0, <2>1 DEF BlockStatus
  <2>4. m \in Sched /\ ListsSound(m) /\ SameThreads(w, m)
    BY <2>1, <2>3, BlockSound
  <2> HIDE DEF m
  <2>5. SameThreads(sched, m)
    BY <2>1, <2>4, SameThreadsTransitive
  <2>6. ch \in Channel
    BY ChannelOf, ChannelUpdates DEF IndInv
  <2> HIDE DEF ch
  <2>7. /\ thd' \in [Threads -> ThreadFields]
        /\ \A u \in Threads : thd'[u].chl = thd[u].chl /\ thd'[u].parent = thd[u].parent
    BY <1>0, <2>2, DataSet
  <2>8. /\ sched.state[me] \notin Gone
        /\ \A u \in Threads :
             sched.state[u] \in Gone \/ sched'.state[u] \in Gone => sched'.state[u] = sched.state[u]
    BY <2>2, <2>5, CurrentIsThread DEF SameThreads
  <2>9. OwnStep
    BY <1>0, <1>1, <2>2, <2>7, <2>8, PlainStepOwn DEF SndCalls
  <2>10. k \in Places
    BY DEF SndCalls, Places
  <2>11. TypeOK'
    BY <1>1, <1>2, <2>2, <2>4, <2>6, <2>7, <2>10 DEF IndInv, TypeOK, clientVars
  <2> QED
    BY <2>2, <2>4, <2>9, <2>11, OwnStepKeeps DEF IndInv, NobodyMisplaced
<1> QED
  BY <1>3, <1>4, <1>5, <1>6 DEF Snd

LEMMA LwtSndKeeps ==
  ASSUME IndInv, NEW c \in Chans, NEW v \in Data, lwt_snd(c, v)
  PROVE  IndInv'
<1>1. /\ me # NULL /\ pc[me] = "client" /\ v \in Values /\ "lwt_snd" \in SndCalls
      /\ Snd(sched, thd, c, v, "lwt_snd")
  BY DEF lwt_snd, Client, Values, SndCalls
<1>2. sched \in Sched /\ ListsSound(sched) /\ thd \in [Threads -> ThreadFields]
  BY DEF IndInv, TypeOK, NobodyMisplaced
<1>3. sched.current_thread = me
  BY DEF me
<1> QED
  BY <1>1, <1>2, <1>3, SndKeeps

LEMMA LwtSndChanKeeps ==
  ASSUME IndInv, NEW c \in Chans, NEW x \in Chans, lwt_snd_chan(c, x)
  PROVE  IndInv'
<1>1. /\ me # NULL /\ pc[me] = "client" /\ x \in Values /\ "lwt_snd_chan" \in SndCalls
      /\ Snd(sched, thd, c, x, "lwt_snd_chan")
  BY DEF lwt_snd_chan, Client, Values, SndCalls
<1>2. sched \in Sched /\ ListsSound(sched) /\ thd \in [Threads -> ThreadFields]
  BY DEF IndInv, TypeOK, NobodyMisplaced
<1>3. sched.current_thread = me
  BY DEF me
<1> QED
  BY <1>1, <1>2, <1>3, SndKeeps

LEMMA LwtDieKeeps ==
  ASSUME IndInv, NEW v \in Data, lwt_die(v)
  PROVE  IndInv'
<1> DEFINE s == SchedDying(sched)
           th == [thd EXCEPT ![me].message_data = v]
<1>1. /\ me # NULL /\ pc[me] = "client" /\ v \in Values /\ "lwt_die" \in SndCalls
      /\ me # MainThread /\ Snd(s, th, thd[me].chl, v, "lwt_die")
  BY DEF lwt_die, Client, Values, SndCalls
<1>2. sched \in Sched /\ ListsSound(sched) /\ thd \in [Threads -> ThreadFields]
  BY DEF IndInv, TypeOK, NobodyMisplaced
<1>3. s \in Sched /\ ListsSound(s) /\ s.current_thread = me /\ s.state = sched.state
  BY <1>2, DyingSound DEF me
<1>4. thd[me].chl \in Chans /\ me \in Threads
  BY <1>1, CurrentIsThread
<1>5. /\ th \in [Threads -> ThreadFields]
      /\ \A u \in Threads : th[u].chl = thd[u].chl /\ th[u].parent = thd[u].parent
  BY <1>1, <1>2, <1>4, DataSet
<1> HIDE DEF s, th
<1> QED
  BY <1>1, <1>3, <1>4, <1>5, SndKeeps

LEMMA SndResumesKeeps ==
  ASSUME IndInv, SndResumes
  PROVE  IndInv'
<1>1. /\ me # NULL /\ pc[me] \in SndCalls /\ SndReturns(sched, pc[me])
      /\ UNCHANGED << thd, chan, grp, chl_list, arg, clientVars >>
  BY DEF SndResumes, SndCalls
<1>2. pc[me] # "lwt_cgrp_wait"
  BY <1>1 DEF SndCalls
<1>3. sched \in Sched /\ ListsSound(sched) /\ sched.current_thread = me /\ SameThreads(sched, sched)
  BY DEF IndInv, TypeOK, NobodyMisplaced, me, SameThreads
<1>4. thd' \in [Threads -> ThreadFields] /\ chan' \in [Chans -> Channel]
  BY <1>1 DEF IndInv, TypeOK
<1> QED
  BY <1>1, <1>2, <1>3, <1>4, SndReturnsKeeps

-----------------------------------------------------------------------------
(* Receiving.                                                               *)

RcvCalls == {"lwt_rcv", "lwt_rcv_chan", "lwt_join"}

\* The reference that comes with a received channel.
LEMMA RcvChanTypes ==
  ASSUME IndInv, me # NULL, NEW c, NEW v, NEW k, NEW x, NEW s,
         NEW ch \in [Chans -> Channel], RcvReturns(c, v, k, x, s, ch)
  PROVE  chan' \in [Chans -> Channel] /\ refs' \in [Chans -> [Threads -> Int]]
<1>1. refs \in [Chans -> [Threads -> Int]] /\ me \in Threads
  BY CurrentIsThread DEF IndInv, TypeOK
<1>2. CASE k = "lwt_rcv_chan" /\ v \in Chans
  <2> DEFINE n == ch[v].snd_cnt + 1
             r == [ch[v] EXCEPT !.snd_cnt = n]
             m == [refs[v] EXCEPT ![me] = refs[v][me] + 1]
  <2>1. chan' = [ch EXCEPT ![v] = r] /\ refs' = [refs EXCEPT ![v] = m]
    BY <1>2 DEF RcvReturns
  <2>2. ch[v] \in Channel /\ n \in Int
    BY <1>2 DEF Channel
  <2> HIDE DEF n
  <2>3. r \in Channel
    BY <2>2, ChannelUpdates
  <2>4. m \in [Threads -> Int]
    BY <1>1, <1>2
  <2> HIDE DEF r, m
  <2> QED
    BY <1>1, <2>1, <2>3, <2>4
<1>3. CASE ~(k = "lwt_rcv_chan" /\ v \in Chans)
  BY <1>1, <1>3 DEF RcvReturns
<1> QED
  BY <1>2, <1>3

LEMMA RcvReturnsKeeps ==
  ASSUME IndInv, me # NULL, pc[me] # "lwt_cgrp_wait", NEW c \in Chans \cup {NULL},
         NEW v \in Values \cup {NULL}, NEW k \in RcvCalls,
         NEW x, k = "lwt_join" => x \in Threads,
         NEW s \in Sched, ListsSound(s), s.current_thread = me, SameThreads(sched, s),
         NEW ch \in [Chans -> Channel], RcvReturns(c, v, k, x, s, ch),
         arg' \in [Threads -> Threads \cup Groups \cup {NULL}],
         \A u \in Threads \ {me} : arg'[u] = arg[u],
         event' \in [Threads -> Chans \cup {NULL}],
         joined' \in SUBSET Threads,
         UNCHANGED << thd, grp, chl_list, made >>
  PROVE  IndInv'
<1> DEFINE p == IF k = "lwt_join" THEN "lwt_join_yield" ELSE "client"
<1>1. chan' \in [Chans -> Channel] /\ refs' \in [Chans -> [Threads -> Int]]
  BY RcvChanTypes
<1>2. sched' \in Sched /\ ListsSound(sched') /\ SameThreads(s, sched')
  <2>1. CASE k = "lwt_join"
    <3>1. sched' = lwt_yield_to(s, x)
      BY <2>1 DEF RcvReturns
    <3> QED
      BY <2>1, <3>1, YieldToSound
  <2>2. CASE k # "lwt_join"
    BY <2>2 DEF RcvReturns, SameThreads
  <2> QED
    BY <2>1, <2>2
<1>3. SameThreads(sched, sched')
  BY <1>2, SameThreadsTransitive
<1>4. pc' = [pc EXCEPT ![me] = p] /\ delivered' = << c, v >>
  BY DEF RcvReturns
<1>5. me \in Threads /\ sched.state[me] \notin Gone
  BY CurrentIsThread
<1>6. p \in Places /\ p # "lwt_cgrp_wait" /\ p # "lwt_join"
  BY DEF Places
<1> HIDE DEF p
<1>7. OwnStep
  BY <1>3, <1>4, <1>5, <1>6, PlainStepOwn DEF SameThreads
<1>8. TypeOK'
  BY <1>1, <1>2, <1>4, <1>6 DEF IndInv, TypeOK
<1> QED
  BY <1>2, <1>7, <1>8, OwnStepKeeps DEF IndInv, NobodyMisplaced

\* The first blocked sender of a channel.
LEMMA FirstSender ==
  ASSUME IndInv, me # NULL, NEW c \in Chans, sched.queue[c] # << >>
  PROVE  /\ Head(sched.queue[c]) \in Threads
         /\ thd[Head(sched.queue[c])].message_data \in Values \cup {NULL}
         /\ LET m == resume_thread(sched, Head(sched.queue[c]))
            IN  /\ m \in Sched /\ ListsSound(m) /\ SameThreads(sched, m)
                /\ NoNewSenders(sched, m) /\ m.current_thread = me
<1>1. sched \in Sched /\ sched.queue[c] \in Seq(Threads)
  BY HeadsDistinct DEF IndInv, TypeOK, Sched
<1>2. PICK t \in Threads : t = Head(sched.queue[c]) /\ OnList(sched.queue, c, t)
  <2>1. /\ Head(sched.queue[c]) \in Threads
        /\ 1 \in 1 .. Len(sched.queue[c]) /\ sched.queue[c][1] = Head(sched.queue[c])
    BY <1>1, HeadTail
  <2> QED
    BY <2>1 DEF OnList
<1>3. sched.state[t] = "LWT_BLOCKED"
  BY <1>2 DEF IndInv, NobodyMisplaced, ListsSound, Placed
<1>4. t # me /\ sched.state[t] \notin Gone
  BY <1>3, CurrentIsThread DEF Gone
<1>5. thd[t].message_data \in Values \cup {NULL}
  BY DEF IndInv, TypeOK, ThreadFields
<1>6. ListsSound(sched) /\ t # sched.current_thread
  BY <1>4 DEF IndInv, NobodyMisplaced, me
<1>7. sched.current_thread = me
  BY DEF me
<1> QED
  BY <1>1, <1>2, <1>4, <1>5, <1>6, <1>7, ResumeSound

LEMMA RcvKeeps ==
  ASSUME IndInv, me # NULL, pc[me] = "client", NEW c \in Chans, NEW k \in RcvCalls,
         NEW x \in Threads \cup {NULL}, k = "lwt_join" => x \in Threads,
         Rcv(c, k, x), joined' \in SUBSET Threads
  PROVE  IndInv'
<1>0. PICK t \in Threads : t = me
  BY CurrentIsThread
<1>1. /\ sched \in Sched /\ ListsSound(sched) /\ sched.current_thread = me
      /\ SameThreads(sched, sched) /\ chan \in [Chans -> Channel]
  BY DEF IndInv, TypeOK, NobodyMisplaced, me, SameThreads
<1>2. /\ arg' = [arg EXCEPT ![me] = x]
      /\ event' = [event EXCEPT ![me] = IF @ = c THEN NULL ELSE @]
      /\ UNCHANGED << grp, chl_list, made >>
  BY DEF Rcv
<1>3. /\ arg' \in [Threads -> Threads \cup Groups \cup {NULL}]
      /\ \A u \in Threads \ {me} : arg'[u] = arg[u]
      /\ arg'[me] = x
  BY <1>0, <1>2 DEF IndInv, TypeOK
<1>4. event' \in [Threads -> Chans \cup {NULL}]
  BY <1>0, <1>2 DEF IndInv, TypeOK
<1>5. CASE RcvBuffer(c, k, x)
  <2> DEFINE senders == sched.queue[c]
             s == IF senders = << >> THEN sched ELSE resume_thread(sched, Head(senders))
             q == Refilled(c)
             b == q # << >>
             ch == [[chan[c] EXCEPT !.buffer = q] EXCEPT !.ready = b]
  <2>1. chan[c].buffer # << >> /\ chan[c].buffer \in Seq(Values \cup {NULL})
    BY <1>5, ChannelOf DEF RcvBuffer, IndInv
  <2>2. Head(chan[c].buffer) \in Values \cup {NULL}
    BY <2>1, HeadTail
  <2>3. Tail(chan[c].buffer) \in Seq(Values \cup {NULL})
    BY <2>1, HeadTail
  <2>4. q \in Seq(Values \cup {NULL})
    BY <2>3, FirstSender DEF Refilled
  <2>5. s \in Sched /\ ListsSound(s) /\ s.current_thread = me /\ SameThreads(sched, s)
    BY <1>1, FirstSender
  <2>6. /\ RcvReturns(c, Head(chan[c].buffer), k, x, s,
                      [chan EXCEPT ![c].buffer = q, ![c].ready = b])
        /\ UNCHANGED thd
    BY <1>5 DEF RcvBuffer
  <2>7. [chan EXCEPT ![c].buffer = q, ![c].ready = b] = [chan EXCEPT ![c] = ch]
    BY <1>1
  <2> HIDE DEF q, s
  <2>8. ch \in Channel
    <3>1. [chan[c] EXCEPT !.buffer = q] \in Channel
      BY <2>4, ChannelOf, ChannelUpdates DEF IndInv
    <3> QED
      BY <3>1, ChannelUpdates
  <2> HIDE DEF ch, b
  <2>9. [chan EXCEPT ![c] = ch] \in [Chans -> Channel]
    BY <1>1, <2>8
  <2> QED
    BY <1>2, <1>3, <1>4, <2>2, <2>5, <2>6, <2>7, <2>9, RcvReturnsKeeps
<1>6. CASE RcvSender(c, k, x)
  <2> DEFINE s == resume_thread(sched, Head(sched.queue[c]))
             b == SendersLeft(c)
             ch == [chan[c] EXCEPT !.ready = b]
  <2>1. sched.queue[c] # << >>
    BY <1>6 DEF RcvSender
  <2>2. /\ thd[Head(sched.queue[c])].message_data \in Values \cup {NULL}
        /\ s \in Sched /\ ListsSound(s) /\ s.current_thread = me /\ SameThreads(sched, s)
    BY <2>1, FirstSender
  <2>3. /\ RcvReturns(c, thd[Head(sched.queue[c])].message_data, k, x, s,
                      [chan EXCEPT ![c].ready = b])
        /\ UNCHANGED thd
    BY <1>6 DEF RcvSender
  <2>4. b \in BOOLEAN
    BY DEF SendersLeft
  <2> HIDE DEF s, b
  <2>5. ch \in Channel /\ [chan EXCEPT ![c].ready = b] = [chan EXCEPT ![c] = ch]
    BY <1>1, <2>4, ChannelOf, ChannelUpdates DEF IndInv
  <2> HIDE DEF ch
  <2>6. [chan EXCEPT ![c] = ch] \in [Chans -> Channel]
    BY <1>1, <2>5
  <2> QED
    BY <1>2, <1>3, <1>4, <2>2, <2>3, <2>5, <2>6, RcvReturnsKeeps
<1>7. CASE RcvBlock(c, k)
  <2> DEFINE m == block_thread(sched, "BLOCKED_RECEIVING", c)
             r == [thd[me] EXCEPT !.now_rcving = c]
  <2>1. /\ sched' = m /\ pc' = [pc EXCEPT ![me] = k]
        /\ thd' = [thd EXCEPT ![me] = r]
        /\ UNCHANGED << chan, refs, delivered >>
    BY <1>7 DEF RcvBlock
  <2>2. thd \in [Threads -> ThreadFields] /\ me \in Threads /\ sched.state[me] \notin Gone
    BY CurrentIsThread DEF IndInv, TypeOK
  <2>3. r \in ThreadFields /\ r.chl = thd[me].chl /\ r.parent = thd[me].parent
    BY <2>2 DEF ThreadFields
  <2> HIDE DEF r
  <2>4. /\ thd' \in [Threads -> ThreadFields]
        /\ \A u \in Threads : thd'[u].chl = thd[u].chl /\ thd'[u].parent = thd[u].parent
    BY <2>1, <2>2, <2>3
  <2>5. "BLOCKED_RECEIVING" \in BlockStatus /\ "BLOCKED_RECEIVING" # "BLOCKED_SENDING"
    BY DEF BlockStatus
  <2>6. m \in Sched /\ ListsSound(m) /\ SameThreads(sched, m)
    BY <1>0, <1>1, <2>5, BlockSound
  <2> HIDE DEF m
  <2>7. OwnStep
    BY <1>2, <1>3, <2>1, <2>2, <2>4, <2>6, PlainStepOwn DEF SameThreads, RcvCalls
  <2>8. k \in Places
    BY DEF RcvCalls, Places
  <2>9. TypeOK'
    BY <1>2, <1>3, <1>4, <2>1, <2>4, <2>6, <2>8 DEF IndInv, TypeOK
  <2> QED
    BY <2>1, <2>6, <2>7, <2>9, OwnStepKeeps DEF IndInv, NobodyMisplaced
<1> QED
  BY <1>5, <1>6, <1>7 DEF Rcv

LEMMA UnchangedKeeps ==
  ASSUME IndInv, UNCHANGED vars
  PROVE  IndInv'
<1>1. TypeOK' /\ NobodyMisplaced'
  BY DEF IndInv, TypeOK, NobodyMisplaced, vars, clientVars
<1>2. ThreadsInv' /\ BlockedOwnersWait'
  BY DEF IndInv, ThreadsInv, BlockedOwnersWait, vars, clientVars
<1> QED
  BY <1>1, <1>2 DEF IndInv

LEMMA LwtRcvKeeps ==
  ASSUME IndInv, NEW c \in Chans, lwt_rcv(c) \/ lwt_rcv_chan(c)
  PROVE  IndInv'
<1>1. joined \in SUBSET Threads
  BY DEF IndInv, TypeOK
<1>2. PICK k \in {"lwt_rcv", "lwt_rcv_chan"} :
        me # NULL /\ pc[me] = "client" /\ Rcv(c, k, NULL) /\ UNCHANGED joined
  BY DEF lwt_rcv, lwt_rcv_chan, Client
<1>3. k \in RcvCalls /\ k # "lwt_join"
  BY DEF RcvCalls
<1> QED
  BY <1>1, <1>2, <1>3, RcvKeeps

LEMMA LwtJoinKeeps ==
  ASSUME IndInv, NEW t \in Threads, lwt_join(t)
  PROVE  IndInv'
<1>1. CASE UNCHANGED vars
  BY <1>1, UnchangedKeeps
<1>2. CASE /\ thd[t].parent = me
           /\ Rcv(thd[t].chl, "lwt_join", t) /\ joined' = joined \cup {t}
  <2>1. me # NULL /\ pc[me] = "client"
    BY DEF lwt_join, Client
  <2>2. thd[t].chl \in Chans
    BY <1>2, <2>1 DEF IndInv, ThreadsInv
  <2>3. joined' \in SUBSET Threads
    BY <1>2 DEF IndInv, TypeOK
  <2>4. "lwt_join" \in RcvCalls
    BY DEF RcvCalls
  <2> QED
    BY <1>2, <2>1, <2>2, <2>3, <2>4, RcvKeeps
<1> QED
  BY <1>1, <1>2 DEF lwt_join

LEMMA RcvResumesKeeps ==
  ASSUME IndInv, RcvResumes
  PROVE  IndInv'
<1>1. /\ me # NULL /\ pc[me] \in RcvCalls
      /\ RcvReturns(thd[me].now_rcving, thd[me].message_data, pc[me], arg[me], sched, chan)
      /\ UNCHANGED << thd, grp, chl_list, arg, made, event, joined >>
  BY DEF RcvResumes, InRcv, RcvCalls
<1>2. me \in Threads
  BY <1>1, CurrentIsThread
<1>3. thd[me].now_rcving \in Chans \cup {NULL} /\ thd[me].message_data \in Values \cup {NULL}
  BY <1>2 DEF IndInv, TypeOK, ThreadFields
<1>4. pc[me] # "lwt_cgrp_wait" /\ (pc[me] = "lwt_join" => arg[me] \in Threads)
  BY <1>1, <1>2 DEF IndInv, ThreadsInv, RcvCalls
<1>5. /\ sched \in Sched /\ ListsSound(sched) /\ sched.current_thread = me
      /\ SameThreads(sched, sched) /\ chan \in [Chans -> Channel]
  BY DEF IndInv, TypeOK, NobodyMisplaced, me, SameThreads
<1>6. /\ arg' \in [Threads -> Threads \cup Groups \cup {NULL}]
      /\ event' \in [Threads -> Chans \cup {NULL}] /\ joined' \in SUBSET Threads
  BY <1>1 DEF IndInv, TypeOK
<1> QED
  BY <1>1, <1>3, <1>4, <1>5, <1>6, RcvReturnsKeeps

-----------------------------------------------------------------------------
(* Threads and channels.                                                    *)

\* A step of client code that changes neither pc nor the groups.
LEMMA ClientStepKeeps ==
  ASSUME IndInv, me # NULL, UNCHANGED << thd, grp, pc, arg >>, TypeOK',
         ListsSound(sched'), SameThreads(sched, sched'), pc[me] # "lwt_cgrp_wait"
  PROVE  IndInv'
<1>1. me \in Threads /\ sched.state[me] \notin Gone
  BY CurrentIsThread
<1>2. \A g \in Groups : grp[g].blocked => grp[g].owner # me
  BY DEF IndInv, BlockedOwnersWait
<1>3. pc[me] = "lwt_join" => arg[me] \in Threads
  BY <1>1 DEF IndInv, ThreadsInv
<1>4. OwnStep
  BY <1>1, <1>2, <1>3 DEF OwnStep, SameThreads
<1> QED
  BY <1>4, OwnStepKeeps DEF IndInv, NobodyMisplaced

LEMMA JoinReturnsKeeps ==
  ASSUME IndInv, JoinReturns
  PROVE  IndInv'
<1>1. /\ me # NULL /\ pc[me] = "lwt_join_yield" /\ pc' = [pc EXCEPT ![me] = "client"]
      /\ UNCHANGED << sched, thd, chan, grp, chl_list, arg, clientVars >>
  BY DEF JoinReturns
<1>2. me \in Threads
  BY <1>1, CurrentIsThread
<1>3. OwnStep
  BY <1>1, <1>2, PlainStepOwn DEF SameThreads
<1>4. TypeOK'
  BY <1>1 DEF IndInv, TypeOK, Places, clientVars
<1> QED
  BY <1>1, <1>3, <1>4, OwnStepKeeps DEF IndInv, NobodyMisplaced

LEMMA LwtYieldKeeps ==
  ASSUME IndInv, NEW t \in Threads \cup {NULL}, lwt_yield(t)
  PROVE  IndInv'
<1>1. /\ me # NULL /\ pc[me] = "client"
      /\ sched' = IF t = NULL THEN lwt_yield_null(sched) ELSE lwt_yield_to(sched, t)
      /\ UNCHANGED << thd, chan, grp, chl_list, pc, arg, clientVars >>
  BY DEF lwt_yield, Client
<1>2. /\ sched \in Sched /\ ListsSound(sched) /\ Placed(sched)
      /\ sched.current_thread \in Threads
  BY <1>1, CurrentIsThread DEF IndInv, TypeOK, NobodyMisplaced, ListsSound, me
<1>3. sched' \in Sched /\ ListsSound(sched') /\ SameThreads(sched, sched')
  <2>1. CASE t = NULL
    BY <1>1, <1>2, <2>1, YieldNullSound
  <2>2. CASE t # NULL
    <3>1. t \in Threads
      BY <2>2
    <3> QED
      BY <1>1, <1>2, <2>2, <3>1, YieldToSound
  <2> QED
    BY <2>1, <2>2
<1>4. TypeOK'
  BY <1>1, <1>3 DEF IndInv, TypeOK, clientVars
<1> QED
  BY <1>1, <1>3, <1>4, ClientStepKeeps

LEMMA NewChanType ==
  ASSUME IndInv, me # NULL, NEW c \in Chans, NEW size \in Nat
  PROVE  NewChan(c, size) \in Channel
<1>1. me \in Threads /\ chan[c] \in Channel
  BY CurrentIsThread, ChannelOf DEF IndInv
<1>2. << >> \in Seq(Values \cup {NULL})
  OBVIOUS
<1> DEFINE live == [chan[c] EXCEPT !.live = TRUE]
           received == [live EXCEPT !.receiver = me]
           counted == [received EXCEPT !.snd_cnt = 0]
           sized == [counted EXCEPT !.size = size]
<1>3. live \in Channel
  BY <1>1, ChannelUpdates
<1>4. NewChan(c, size) = [sized EXCEPT !.buffer = << >>]
  BY DEF NewChan
<1> HIDE DEF live
<1>5. received \in Channel
  BY <1>1, <1>3, ChannelUpdates
<1> HIDE DEF received
<1>6. counted \in Channel
  BY <1>5, ChannelUpdates
<1> HIDE DEF counted
<1>7. sized \in Channel
  BY <1>6 DEF Channel
<1> HIDE DEF sized
<1> QED
  BY <1>2, <1>4, <1>7, ChannelUpdates

LEMMA LwtChanKeeps ==
  ASSUME IndInv, NEW c \in Chans, NEW size \in Sizes, lwt_chan(c, size)
  PROVE  IndInv'
<1> DEFINE m == [sched EXCEPT !.queue = list_head_init(@, c)]
           n == NewChan(c, size)
<1>1. /\ me # NULL /\ pc[me] = "client"
      /\ chan' = [chan EXCEPT ![c] = n] /\ sched' = m /\ made' = made \cup {c}
      /\ UNCHANGED << thd, grp, chl_list, pc, arg, event, refs, joined, delivered >>
  BY DEF lwt_chan, Client
<1>2. sched \in Sched /\ ListsSound(sched) /\ chan \in [Chans -> Channel]
  BY DEF IndInv, TypeOK, NobodyMisplaced
<1>3. m \in Sched /\ ListsSound(m) /\ m.state = sched.state
  BY <1>2, NewQueueSound
<1>4. n \in Channel
  BY <1>1, NewChanType, LwtAssumption
<1> HIDE DEF m, n
<1>5. SameThreads(sched, sched')
  BY <1>1, <1>3 DEF SameThreads
<1>6. TypeOK'
  BY <1>1, <1>2, <1>3, <1>4 DEF IndInv, TypeOK
<1> QED
  BY <1>1, <1>3, <1>5, <1>6, ClientStepKeeps

LEMMA LwtChanDerefKeeps ==
  ASSUME IndInv, NEW c \in Chans, lwt_chan_deref(c)
  PROVE  IndInv'
<1> DEFINE n == Freed(Dereferenced(c))
           r == [refs[c] EXCEPT ![me] = IF chan[c].receiver = me THEN @ ELSE @ - 1]
<1>1. /\ me # NULL /\ pc[me] = "client" /\ chan' = [chan EXCEPT ![c] = n]
      /\ refs' = [refs EXCEPT ![c] = r]
      /\ made' = IF chan'[c].live THEN made ELSE made \ {c}
      /\ UNCHANGED << sched, thd, grp, chl_list, pc, arg, event, joined, delivered >>
  <2>1. refs' = [refs EXCEPT ![c][me] = IF chan[c].receiver = me THEN @ ELSE @ - 1]
    BY DEF lwt_chan_deref
  <2> QED
    BY <2>1 DEF lwt_chan_deref, Client
<1>2. /\ chan \in [Chans -> Channel] /\ made \in SUBSET Chans
      /\ refs \in [Chans -> [Threads -> Int]] /\ me \in Threads
  BY <1>1, CurrentIsThread DEF IndInv, TypeOK
<1>3. n \in Channel
  <2> DEFINE d == Dereferenced(c)
  <2>1. chan[c] \in Channel /\ chan[c].snd_cnt - 1 \in Int
    BY ChannelOf DEF IndInv
  <2>2. d \in Channel
    BY <2>1, ChannelUpdates DEF Dereferenced
  <2> HIDE DEF d
  <2>3. Freed(d) \in Channel
    BY <2>2, ChannelUpdates DEF Freed
  <2> QED
    BY <2>3 DEF d
<1>4. r \in [Threads -> Int]
  BY <1>2
<1> HIDE DEF n, r
<1>5. chan' \in [Chans -> Channel] /\ refs' \in [Chans -> [Threads -> Int]]
  BY <1>1, <1>2, <1>3, <1>4
<1>6. made' \in SUBSET Chans
  BY <1>1, <1>2
<1>7. TypeOK'
  BY <1>1, <1>5, <1>6 DEF IndInv, TypeOK
<1>8. ListsSound(sched') /\ SameThreads(sched, sched')
  BY <1>1 DEF IndInv, NobodyMisplaced, SameThreads
<1> QED
  BY <1>1, <1>7, <1>8, ClientStepKeeps

\* lwt_create takes a block nobody uses.
LEMMA AllocatesGone ==
  ASSUME IndInv, me # NULL, NEW t \in Threads, Allocates(t)
  PROVE  sched.state[t] \in Gone /\ t # me /\ pc[t] = "client"
<1> DEFINE recycled == sched.queue["recycle_queue"]
<1>1. sched.state[t] \in Gone
  <2>1. CASE recycled # << >>
    <3>1. sched.queue["recycle_queue"] \in Seq(Threads)
      BY HeadsDistinct DEF IndInv, TypeOK, Sched
    <3>2. t = Head(recycled)
      BY <2>1 DEF Allocates
    <3>3. OnList(sched.queue, "recycle_queue", t)
      BY <2>1, <3>1, <3>2, HeadTail DEF OnList
    <3> QED
      BY <3>3 DEF IndInv, NobodyMisplaced, ListsSound, Placed, Gone
  <2>2. CASE recycled = << >>
    BY <2>2 DEF Allocates, Gone
  <2> QED
    BY <2>1, <2>2
<1> QED
  BY <1>1, CurrentIsThread DEF IndInv, ThreadsInv

LEMMA CreateKeeps ==
  ASSUME IndInv, me # NULL, NEW t \in Threads, NEW x \in Chans, NEW nojoin \in BOOLEAN,
         NEW given \in Chans \cup {NULL}, Create(t, x, nojoin, given)
  PROVE  IndInv'
<1> DEFINE m == [SchedCreate(sched, t) EXCEPT !.queue = list_head_init(@, x)]
           r == [thd[t] EXCEPT !.parent = me, !.nojoin = nojoin, !.message_data = NULL, !.chl = x]
<1>1. /\ sched' = m /\ thd' = [thd EXCEPT ![t] = r]
      /\ pc' = [pc EXCEPT ![t] = "client"] /\ arg' = [arg EXCEPT ![t] = NULL]
      /\ event' = [event EXCEPT ![t] = NULL] /\ joined' = joined \ {t}
      /\ refs' = [c \in Chans |-> [refs[c] EXCEPT ![t] = IF c = given THEN 1 ELSE 0]]
      /\ UNCHANGED << grp, chl_list, made, delivered >>
  BY DEF Create
<1>2. sched \in Sched /\ ListsSound(sched) /\ me \in Threads
  BY CurrentIsThread DEF IndInv, TypeOK, NobodyMisplaced
<1>3. m \in Sched /\ ListsSound(m) /\ m.state = [sched.state EXCEPT ![t] = "LWT_RUNNING"]
  BY <1>2, CreateSound
<1> HIDE DEF m
<1>4. thd \in [Threads -> ThreadFields] /\ sched.state \in [Threads -> States]
  BY DEF IndInv, TypeOK, Sched
<1>5. r \in ThreadFields /\ r.chl = x
  BY <1>2, <1>4 DEF ThreadFields
<1> HIDE DEF r
<1>6. chan' \in [Chans -> Channel]
  <2>1. chan' = [c \in Chans |->
                   IF c = x THEN [NewChan(c, 0) EXCEPT !.snd_cnt = 1]
                   ELSE IF c = given THEN [chan[c] EXCEPT !.snd_cnt = chan[c].snd_cnt + 1]
                   ELSE chan[c]]
    BY DEF Create
  <2>2. ASSUME NEW c \in Chans
        PROVE  /\ [NewChan(c, 0) EXCEPT !.snd_cnt = 1] \in Channel
               /\ [chan[c] EXCEPT !.snd_cnt = chan[c].snd_cnt + 1] \in Channel
               /\ chan[c] \in Channel
    <3>1. NewChan(c, 0) \in Channel
      BY NewChanType
    <3>2. chan[c] \in Channel /\ chan[c].snd_cnt + 1 \in Int
      BY ChannelOf DEF IndInv
    <3> QED
      BY <3>1, <3>2, ChannelUpdates
  <2> QED
    BY <2>1, <2>2
<1>7. refs' \in [Chans -> [Threads -> Int]]
  BY <1>1 DEF IndInv, TypeOK
<1>8. TypeOK'
  <2>1. pc' \in [Threads -> Places] /\ arg' \in [Threads -> Threads \cup Groups \cup {NULL}]
    BY <1>1 DEF IndInv, TypeOK, Places
  <2>2. event' \in [Threads -> Chans \cup {NULL}] /\ joined' \in SUBSET Threads
    BY <1>1 DEF IndInv, TypeOK
  <2>3. thd' \in [Threads -> ThreadFields]
    BY <1>1, <1>4, <1>5
  <2> QED
    BY <1>1, <1>3, <1>6, <1>7, <2>1, <2>2, <2>3 DEF IndInv, TypeOK
<1>9. pc[t] = "client" /\ pc'[t] = "client" /\ arg'[t] = NULL
  BY <1>1, AllocatesGone DEF Create, IndInv, TypeOK
<1>10. \A u \in Threads \ {t} : /\ pc'[u] = pc[u] /\ arg'[u] = arg[u]
                                /\ sched'.state[u] = sched.state[u] /\ thd'[u] = thd[u]
  BY <1>1, <1>3, <1>4 DEF IndInv, TypeOK
<1>11. ThreadsInv'
  <2>1. thd'[t].chl \in Chans
    BY <1>1, <1>4, <1>5
  <2> QED
    BY <1>9, <1>10, <2>1 DEF IndInv, ThreadsInv
<1>12. BlockedOwnersWait'
  <2>1. \A g \in Groups : grp[g].blocked => grp[g].owner # t
    BY <1>9 DEF IndInv, BlockedOwnersWait
  <2> QED
    BY <1>1, <1>9, <1>10, <2>1 DEF IndInv, BlockedOwnersWait
<1> QED
  BY <1>1, <1>3, <1>8, <1>11, <1>12 DEF IndInv, NobodyMisplaced

LEMMA LwtCreateKeeps ==
  ASSUME IndInv, NEW t \in Threads, NEW x \in Chans, NEW nojoin \in BOOLEAN,
         lwt_create(t, x, nojoin)
  PROVE  IndInv'
  BY CreateKeeps DEF lwt_create, Client

LEMMA LwtCreateChanKeeps ==
  ASSUME IndInv, NEW t \in Threads, NEW x \in Chans, NEW c \in Chans,
         lwt_create_chan(t, x, c)
  PROVE  IndInv'
  BY CreateKeeps DEF lwt_create_chan, Client

-----------------------------------------------------------------------------
(* Groups.                                                                  *)

\* Calls that change no thread and leave blocked and the other groups alone.
LEMMA GroupCallKeeps ==
  ASSUME IndInv, me # NULL, pc[me] = "client", UNCHANGED << sched, thd, pc, arg >>, TypeOK',
         \A g \in Groups : grp'[g].blocked => grp[g].blocked /\ grp'[g].owner = grp[g].owner,
         \A g \in Groups : grp[g].live /\ grp[g].owner # me =>
            grp'[g].live /\ grp'[g].owner = grp[g].owner
  PROVE  IndInv'
<1>1. me \in Threads /\ sched.state[me] \notin Gone
  BY CurrentIsThread
<1>2. \A g \in Groups : grp[g].blocked => grp[g].owner # me
  BY DEF IndInv, BlockedOwnersWait
<1>3. OwnStep
  BY <1>1, <1>2 DEF OwnStep
<1> QED
  BY <1>3, OwnStepKeeps DEF IndInv, NobodyMisplaced

LEMMA LwtCgrpKeeps ==
  ASSUME IndInv, NEW g \in Groups, lwt_cgrp(g)
  PROVE  IndInv'
<1> DEFINE n == [live |-> TRUE, owner |-> me, blocked |-> FALSE]
<1>1. /\ me # NULL /\ pc[me] = "client" /\ ~grp[g].live
      /\ grp' = [grp EXCEPT ![g] = n]
      /\ chl_list' = [chl_list EXCEPT ![g] = << >>]
      /\ UNCHANGED << sched, thd, chan, pc, arg, clientVars >>
  BY DEF lwt_cgrp, Client, list_head_init
<1>2. grp \in [Groups -> Group] /\ chl_list \in [Groups -> Seq(Chans)]
  BY DEF IndInv, TypeOK
<1>3. n \in Group /\ n.live /\ n.owner = me /\ ~n.blocked
  BY <1>1, CurrentIsThread DEF Group
<1> HIDE DEF n
<1>4. grp' \in [Groups -> Group] /\ chl_list' \in [Groups -> Seq(Chans)]
  BY <1>1, <1>2, <1>3
<1>5. TypeOK'
  BY <1>1, <1>4 DEF IndInv, TypeOK, clientVars
<1>6. \A h \in Groups : grp'[h].blocked => grp[h].blocked /\ grp'[h].owner = grp[h].owner
  BY <1>1, <1>2, <1>3
<1>7. \A h \in Groups : grp[h].live /\ grp[h].owner # me =>
        grp'[h].live /\ grp'[h].owner = grp[h].owner
  BY <1>1, <1>2
<1> QED
  BY <1>1, <1>5, <1>6, <1>7, GroupCallKeeps

\* The lists of the groups as lwt_cgrp_add and lwt_cgrp_rem leave them.
LEMMA GroupLists ==
  ASSUME IndInv, NEW g \in Groups, NEW c \in Chans
  PROVE  /\ list_head_append(chl_list, g, c) \in [Groups -> Seq(Chans)]
         /\ list_rem(chl_list, c) \in [Groups -> Seq(Chans)]
<1>1. chl_list \in [Groups -> Seq(Chans)]
  BY DEF IndInv, TypeOK
<1>2. BeforeLast(chl_list[g], c) \in Seq(Chans)
  <2>1. CASE chl_list[g] = << >>
    BY <2>1 DEF BeforeLast
  <2>2. CASE chl_list[g] # << >>
    <3>1. chl_list[g] \in Seq(Chans) /\ Len(chl_list[g]) \in 1 .. Len(chl_list[g])
      BY <1>1, <2>2
    <3> QED
      BY <2>2, <3>1, InsertAtElements DEF BeforeLast
  <2> QED
    BY <2>1, <2>2
<1>3. ASSUME NEW h \in Groups
      PROVE  Unlinked(chl_list[h], c) \in Seq(Chans)
  <2> DEFINE s == chl_list[h]
             i == CHOOSE i \in 1 .. Len(s) : s[i] = c
  <2>1. CASE \E j \in 1 .. Len(s) : s[j] = c
    <3>1. i \in 1 .. Len(s) /\ s \in Seq(Chans)
      BY <1>1, <2>1
    <3>2. Unlinked(s, c) = RemoveAt(s, i)
      BY <2>1 DEF Unlinked
    <3> HIDE DEF i
    <3> QED
      BY <3>1, <3>2, RemoveAtElements
  <2>2. CASE ~\E j \in 1 .. Len(s) : s[j] = c
    BY <1>1, <2>2 DEF Unlinked
  <2> QED
    BY <2>1, <2>2
<1> QED
  BY <1>1, <1>2, <1>3 DEF list_head_append, list_rem

LEMMA LwtCgrpAddKeeps ==
  ASSUME IndInv, NEW g \in Groups, NEW c \in Chans, lwt_cgrp_add(g, c)
  PROVE  IndInv'
<1>1. CASE UNCHANGED vars
  BY <1>1, UnchangedKeeps
<1>2. CASE /\ chl_list' = list_head_append(chl_list, g, c)
           /\ chan' = [chan EXCEPT ![c].cgroup = g]
           /\ UNCHANGED << sched, thd, grp, pc, arg, clientVars >>
  <2> DEFINE n == [chan[c] EXCEPT !.cgroup = g]
  <2>1. chan' = [chan EXCEPT ![c] = n]
    BY <1>2
  <2>2. n \in Channel
    BY ChannelOf, ChannelUpdates DEF IndInv
  <2> HIDE DEF n
  <2>3. chan' \in [Chans -> Channel]
    BY <2>1, <2>2 DEF IndInv, TypeOK
  <2>4. TypeOK'
    BY <1>2, <2>3, GroupLists DEF IndInv, TypeOK, clientVars
  <2>5. me # NULL /\ pc[me] = "client"
    BY DEF lwt_cgrp_add, Client
  <2> QED
    BY <1>2, <2>4, <2>5, GroupCallKeeps
<1> QED
  BY <1>1, <1>2 DEF lwt_cgrp_add

LEMMA LwtCgrpRemKeeps ==
  ASSUME IndInv, NEW g \in Groups, NEW c \in Chans, lwt_cgrp_rem(g, c)
  PROVE  IndInv'
<1>1. CASE UNCHANGED vars
  BY <1>1, UnchangedKeeps
<1>2. CASE /\ chl_list' = list_rem(chl_list, c)
           /\ chan' = [chan EXCEPT ![c].cgroup = NULL]
           /\ UNCHANGED << sched, thd, grp, pc, arg, clientVars >>
  <2> DEFINE n == [chan[c] EXCEPT !.cgroup = NULL]
  <2>1. chan' = [chan EXCEPT ![c] = n]
    BY <1>2
  <2>2. n \in Channel
    BY ChannelOf, ChannelUpdates DEF IndInv
  <2> HIDE DEF n
  <2>3. chan' \in [Chans -> Channel]
    BY <2>1, <2>2 DEF IndInv, TypeOK
  <2>4. TypeOK'
    BY <1>2, <2>3, GroupLists DEF IndInv, TypeOK, clientVars
  <2>5. me # NULL /\ pc[me] = "client"
    BY DEF lwt_cgrp_rem, Client
  <2> QED
    BY <1>2, <2>4, <2>5, GroupCallKeeps
<1> QED
  BY <1>1, <1>2 DEF lwt_cgrp_rem

LEMMA LwtCgrpFreeKeeps ==
  ASSUME IndInv, NEW g \in Groups, lwt_cgrp_free(g)
  PROVE  IndInv'
<1>1. CASE UNCHANGED vars
  BY <1>1, UnchangedKeeps
<1>2. CASE /\ grp' = [grp EXCEPT ![g].live = FALSE]
           /\ UNCHANGED << sched, thd, chan, chl_list, pc, arg, clientVars >>
  <2> DEFINE n == [grp[g] EXCEPT !.live = FALSE]
  <2>1. grp' = [grp EXCEPT ![g] = n] /\ grp \in [Groups -> Group]
    BY <1>2 DEF IndInv, TypeOK
  <2>2. n \in Group /\ n.owner = grp[g].owner /\ n.blocked = grp[g].blocked
    BY <2>1 DEF Group
  <2>3. me # NULL /\ pc[me] = "client" /\ grp[g].owner = me
    BY DEF lwt_cgrp_free, Client, MayGroup
  <2> HIDE DEF n
  <2>4. grp' \in [Groups -> Group]
    BY <2>1, <2>2
  <2>5. TypeOK'
    BY <1>2, <2>4 DEF IndInv, TypeOK, clientVars
  <2>6. \A h \in Groups : grp'[h].blocked => grp[h].blocked /\ grp'[h].owner = grp[h].owner
    BY <2>1, <2>2
  <2>7. \A h \in Groups : grp[h].live /\ grp[h].owner # me =>
          grp'[h].live /\ grp'[h].owner = grp[h].owner
    BY <2>1, <2>3
  <2> QED
    BY <1>2, <2>3, <2>5, <2>6, <2>7, GroupCallKeeps
<1> QED
  BY <1>1, <1>2 DEF lwt_cgrp_free

\* One turn of the loop of lwt_cgrp_wait by the owner of g.
LEMMA WaitLoopKeeps ==
  ASSUME IndInv, me # NULL, NEW g \in Groups, grp[g].live, grp[g].owner = me,
         pc[me] = "client" \/ (pc[me] = "lwt_cgrp_wait" /\ arg[me] = g), WaitLoop(g)
  PROVE  IndInv'
<1>0. PICK t \in Threads : t = me
  BY CurrentIsThread
<1>1. UNCHANGED << thd, chan, chl_list, made, refs, joined, delivered >>
  BY DEF WaitLoop
<1>2. /\ sched \in Sched /\ ListsSound(sched) /\ grp \in [Groups -> Group]
      /\ chl_list \in [Groups -> Seq(Chans)] /\ event \in [Threads -> Chans \cup {NULL}]
      /\ pc \in [Threads -> Places] /\ arg \in [Threads -> Threads \cup Groups \cup {NULL}]
  BY DEF IndInv, TypeOK, NobodyMisplaced
<1>3. me \in Threads /\ sched.state[me] \notin Gone
  BY CurrentIsThread
\* blocked names the current thread only in the group it waits on.
<1>4. \A h \in Groups \ {g} : grp[h].blocked => grp[h].owner # me
  BY DEF IndInv, BlockedOwnersWait
<1>5. CASE WaitReturns(g)
  <2> DEFINE n == [grp[g] EXCEPT !.blocked = FALSE]
  <2>1. PICK i \in DOMAIN chl_list[g] :
          /\ grp' = [grp EXCEPT ![g].blocked = FALSE]
          /\ event' = [event EXCEPT ![me] = chl_list[g][i]]
          /\ pc' = [pc EXCEPT ![me] = "client"]
          /\ UNCHANGED << sched, arg >>
    BY <1>5 DEF WaitReturns
  <2>2. n \in Group /\ n.live = grp[g].live /\ n.owner = grp[g].owner /\ ~n.blocked
    BY <1>2 DEF Group
  <2>3. grp' = [grp EXCEPT ![g] = n]
    BY <2>1
  <2> HIDE DEF n
  <2>4. grp' \in [Groups -> Group]
    BY <1>2, <2>2, <2>3
  <2>5. event' \in [Threads -> Chans \cup {NULL}]
    <3>1. chl_list[g] \in Seq(Chans)
      BY <1>2
    <3>2. chl_list[g][i] \in Chans
      BY <2>1, <3>1
    <3> QED
      BY <1>2, <2>1, <3>2
  <2>6. TypeOK'
    BY <1>1, <2>1, <2>4, <2>5 DEF IndInv, TypeOK, Places
  <2>7. pc'[me] = "client" /\ \A u \in Threads \ {me} : pc'[u] = pc[u]
    BY <1>2, <1>3, <2>1
  <2>8. \A h \in Groups : grp'[h].blocked =>
          grp[h].blocked /\ grp'[h].owner = grp[h].owner /\ grp[h].owner # me
    BY <1>2, <1>4, <2>2, <2>3
  <2>9. \A h \in Groups : grp[h].live /\ grp[h].owner # me =>
          grp'[h].live /\ grp'[h].owner = grp[h].owner
    BY <1>2, <2>2, <2>3
  <2>10. OwnStep
    BY <1>1, <1>3, <2>1, <2>7, <2>8, <2>9 DEF OwnStep
  <2> QED
    BY <2>1, <2>6, <2>10, OwnStepKeeps DEF IndInv, NobodyMisplaced
<1>6. CASE WaitBlocks(g)
  <2> DEFINE n == [grp[g] EXCEPT !.blocked = TRUE]
             m == block_thread(sched, "BLOCKED_RECEIVING", NULL)
  <2>1. /\ grp' = [grp EXCEPT ![g] = n] /\ sched' = m
        /\ pc' = [pc EXCEPT ![me] = "lwt_cgrp_wait"] /\ arg' = [arg EXCEPT ![me] = g]
        /\ UNCHANGED event
    BY <1>6 DEF WaitBlocks
  <2>2. n \in Group /\ n.live = grp[g].live /\ n.owner = grp[g].owner
    BY <1>2 DEF Group
  <2> HIDE DEF n
  <2>3. sched.current_thread \in Threads /\ "BLOCKED_RECEIVING" \in BlockStatus
    BY <1>3 DEF me, BlockStatus
  <2>4. m \in Sched /\ ListsSound(m) /\ SameThreads(sched, m)
    BY <1>2, <2>3, BlockSound
  <2> HIDE DEF m
  <2>5. grp' \in [Groups -> Group]
    BY <1>2, <2>1, <2>2
  <2>6. arg' \in [Threads -> Threads \cup Groups \cup {NULL}] /\ pc' \in [Threads -> Places]
    BY <1>2, <2>1 DEF Places
  <2>7. TypeOK'
    BY <1>1, <2>1, <2>4, <2>5, <2>6 DEF IndInv, TypeOK
  <2>8. /\ pc'[me] = "lwt_cgrp_wait" /\ arg'[me] = g
        /\ \A u \in Threads \ {me} : pc'[u] = pc[u] /\ arg'[u] = arg[u]
    BY <1>2, <1>3, <2>1
  <2>9. grp'[g].live /\ grp'[g].owner = me /\ \A h \in Groups \ {g} : grp'[h] = grp[h]
    BY <1>2, <2>1, <2>2
  <2>10. \A h \in Groups : grp'[h].blocked =>
           \/ grp[h].blocked /\ grp'[h].owner = grp[h].owner /\ grp[h].owner # me
           \/ grp'[h].owner = me /\ pc'[me] = "lwt_cgrp_wait" /\ arg'[me] = h
    BY <1>4, <2>8, <2>9
  <2>11. \A h \in Groups : grp[h].live /\ grp[h].owner # me =>
           grp'[h].live /\ grp'[h].owner = grp[h].owner
    BY <2>9
  <2>12. \A u \in Threads : sched.state[u] \in Gone \/ sched'.state[u] \in Gone =>
           sched'.state[u] = sched.state[u]
    BY <2>1, <2>4 DEF SameThreads
  <2>13. OwnStep
    BY <1>1, <1>3, <2>8, <2>9, <2>10, <2>11, <2>12 DEF OwnStep
  <2> QED
    BY <2>1, <2>4, <2>7, <2>13, OwnStepKeeps DEF IndInv, NobodyMisplaced
<1> QED
  BY <1>5, <1>6 DEF WaitLoop

LEMMA LwtCgrpWaitKeeps ==
  ASSUME IndInv, NEW g \in Groups, lwt_cgrp_wait(g)
  PROVE  IndInv'
<1>1. me # NULL /\ pc[me] = "client" /\ grp[g].live /\ grp[g].owner = me
  BY DEF lwt_cgrp_wait, Client, MayWait, MayGroup
<1>2. CASE UNCHANGED vars
  BY <1>2, UnchangedKeeps
<1>3. CASE WaitLoop(g)
  BY <1>1, <1>3, WaitLoopKeeps
<1> QED
  BY <1>2, <1>3 DEF lwt_cgrp_wait

LEMMA WaitResumesKeeps ==
  ASSUME IndInv, WaitResumes
  PROVE  IndInv'
<1>1. me # NULL /\ pc[me] = "lwt_cgrp_wait" /\ WaitLoop(arg[me])
  BY DEF WaitResumes
<1>2. arg[me] \in Groups /\ grp[arg[me]].live /\ grp[arg[me]].owner = me
  BY <1>1, CurrentIsThread DEF IndInv, BlockedOwnersWait
<1> QED
  BY <1>1, <1>2, WaitLoopKeeps

-----------------------------------------------------------------------------
(* The theorems.                                                            *)

LEMMA InitIndInv == Init => IndInv
<1> SUFFICES ASSUME Init
             PROVE  IndInv
  OBVIOUS
<1>1. sched = SchedInit
  BY DEF Init
<1>2. /\ sched \in Sched /\ ListsSound(sched)
      /\ sched.state = [t \in Threads |-> IF t = MainThread THEN "LWT_RUNNING" ELSE "UNUSED"]
  BY <1>1, SchedInitSound
<1>3. TypeOK
  <2>1. /\ thd \in [Threads -> ThreadFields]
        /\ chan \in [Chans -> Channel]
        /\ grp \in [Groups -> Group]
    BY DEF Init, ThreadFields, Channel, Group
  <2>2. /\ chl_list \in [Groups -> Seq(Chans)]
        /\ pc \in [Threads -> Places]
        /\ arg \in [Threads -> Threads \cup Groups \cup {NULL}]
        /\ made \in SUBSET Chans /\ joined \in SUBSET Threads
        /\ event \in [Threads -> Chans \cup {NULL}]
        /\ delivered \in (Chans \cup {NULL}) \X (Values \cup {NULL})
    BY DEF Init, Places
  <2>3. refs \in [Chans -> [Threads -> Int]]
    BY DEF Init
  <2> QED
    BY <1>2, <2>1, <2>2, <2>3 DEF TypeOK
<1>4. ThreadsInv
  BY <1>2 DEF Init, ThreadsInv
<1>5. BlockedOwnersWait
  BY DEF Init, BlockedOwnersWait
<1> QED
  BY <1>2, <1>3, <1>4, <1>5 DEF IndInv, NobodyMisplaced

LEMMA NextIndInv == IndInv /\ [Next]_vars => IndInv'
<1> SUFFICES ASSUME IndInv, [Next]_vars
             PROVE  IndInv'
  OBVIOUS
<1>1. CASE ThreadStep
  <2>1. ASSUME NEW t \in Threads, NEW x \in Chans, NEW nojoin \in BOOLEAN,
               lwt_create(t, x, nojoin)
        PROVE  IndInv'
    BY <2>1, LwtCreateKeeps
  <2>2. ASSUME NEW t \in Threads, NEW x \in Chans, NEW c \in Chans, lwt_create_chan(t, x, c)
        PROVE  IndInv'
    BY <2>2, LwtCreateChanKeeps
  <2>3. ASSUME NEW t \in Threads \cup {NULL}, lwt_yield(t)
        PROVE  IndInv'
    BY <2>3, LwtYieldKeeps
  <2>4. ASSUME NEW t \in Threads, lwt_join(t)
        PROVE  IndInv'
    BY <2>4, LwtJoinKeeps
  <2>5. ASSUME NEW v \in Data, lwt_die(v)
        PROVE  IndInv'
    BY <2>5, LwtDieKeeps
  <2>6. CASE JoinReturns
    BY <2>6, JoinReturnsKeeps
  <2> QED
    BY <1>1, <2>1, <2>2, <2>3, <2>4, <2>5, <2>6 DEF ThreadStep
<1>2. CASE ChanStep
  <2>1. ASSUME NEW c \in Chans, NEW size \in Sizes, lwt_chan(c, size)
        PROVE  IndInv'
    BY <2>1, LwtChanKeeps
  <2>2. ASSUME NEW c \in Chans, lwt_chan_deref(c)
        PROVE  IndInv'
    BY <2>2, LwtChanDerefKeeps
  <2>3. ASSUME NEW c \in Chans, NEW v \in Data, lwt_snd(c, v)
        PROVE  IndInv'
    BY <2>3, LwtSndKeeps
  <2>4. ASSUME NEW c \in Chans, NEW x \in Chans, lwt_snd_chan(c, x)
        PROVE  IndInv'
    BY <2>4, LwtSndChanKeeps
  <2>5. ASSUME NEW c \in Chans, lwt_rcv(c) \/ lwt_rcv_chan(c)
        PROVE  IndInv'
    BY <2>5, LwtRcvKeeps
  <2>6. CASE SndResumes
    BY <2>6, SndResumesKeeps
  <2>7. CASE RcvResumes
    BY <2>7, RcvResumesKeeps
  <2> QED
    BY <1>2, <2>1, <2>2, <2>3, <2>4, <2>5, <2>6, <2>7 DEF ChanStep
<1>3. CASE GroupStep
  <2>1. ASSUME NEW g \in Groups, lwt_cgrp(g)
        PROVE  IndInv'
    BY <2>1, LwtCgrpKeeps
  <2>2. ASSUME NEW g \in Groups, NEW c \in Chans, lwt_cgrp_add(g, c)
        PROVE  IndInv'
    BY <2>2, LwtCgrpAddKeeps
  <2>3. ASSUME NEW g \in Groups, NEW c \in Chans, lwt_cgrp_rem(g, c)
        PROVE  IndInv'
    BY <2>3, LwtCgrpRemKeeps
  <2>4. ASSUME NEW g \in Groups, lwt_cgrp_free(g)
        PROVE  IndInv'
    BY <2>4, LwtCgrpFreeKeeps
  <2>5. ASSUME NEW g \in Groups, lwt_cgrp_wait(g)
        PROVE  IndInv'
    BY <2>5, LwtCgrpWaitKeeps
  <2>6. CASE WaitResumes
    BY <2>6, WaitResumesKeeps
  <2> QED
    BY <1>3, <2>1, <2>2, <2>3, <2>4, <2>5, <2>6 DEF GroupStep
<1>4. CASE UNCHANGED vars
  BY <1>4, UnchangedKeeps
<1> QED
  BY <1>1, <1>2, <1>3, <1>4 DEF Next

LEMMA IndInvHolds == Spec => []IndInv
  BY InitIndInv, NextIndInv, PTL DEF Spec

\* Type correctness: no call of the API, by any thread, in any order, puts a
\* value of another kind into a struct of the library.
THEOREM TypesHold == Spec => []TypeOK
<1>1. IndInv => TypeOK
  BY DEF IndInv
<1> QED
  BY <1>1, IndInvHolds, PTL

\* No thread is ever on two lists, twice on one, or on a list its state does
\* not call for, and the thread that executes can run: the list_node of a
\* thread is unlinked before every list_head_add_d and list_head_append_d.
THEOREM ThreadsWellPlaced == Spec => []NobodyMisplaced
<1>1. IndInv => NobodyMisplaced
  BY DEF IndInv
<1> QED
  BY <1>1, IndInvHolds, PTL

\* A sender that finds cgrp->blocked set resumes a thread that is inside
\* lwt_cgrp_wait on that very group.
THEOREM OnlyWaitersResumed == Spec => []BlockedOwnersWait
<1>1. IndInv => BlockedOwnersWait
  BY DEF IndInv
<1> QED
  BY <1>1, IndInvHolds, PTL

-----------------------------------------------------------------------------
(***************************************************************************)
(* The lists of the channel groups and the cgroup fields of the channels   *)
(* always agree, for any number of groups, channels and threads.           *)
(*                                                                         *)
(* lwt_cgrp empties the list of the block it takes, so the invariant needs *)
(* that the list of a freed group is empty already.                        *)
(***************************************************************************)

GroupsInv ==
  /\ GroupsPartition
  /\ \A g \in Groups : ~grp[g].live => chl_list[g] = << >>

-----------------------------------------------------------------------------
(* Steps that move no channel between groups.                               *)

\* The channels ch are in the groups in which those of chan are.
SameGroups(ch) ==
  /\ DOMAIN ch = Chans
  /\ \A c \in Chans : "cgroup" \in DOMAIN ch[c] /\ ch[c].cgroup = chan[c].cgroup

LEMMA SameGroupsNow ==
  ASSUME IndInv
  PROVE  SameGroups(chan)
<1>1. chan \in [Chans -> Channel]
  BY DEF IndInv, TypeOK
<1> QED
  BY <1>1 DEF SameGroups, Channel

\* Another field of one channel is assigned.
LEMMA SameGroupsUpdate ==
  ASSUME NEW ch, SameGroups(ch), NEW c \in Chans, NEW v
  PROVE  /\ SameGroups([ch EXCEPT ![c].ready = v])
         /\ SameGroups([ch EXCEPT ![c].buffer = v])
         /\ SameGroups([ch EXCEPT ![c].snd_cnt = v])
<1>1. ASSUME NEW f, f # "cgroup"
      PROVE  SameGroups([ch EXCEPT ![c] = [@ EXCEPT ![f] = v]])
  BY <1>1 DEF SameGroups
<1> QED
  BY <1>1

LEMMA SameGroupsKeep ==
  ASSUME GroupsInv, SameGroups(chan'), UNCHANGED chl_list,
         \A g \in Groups : grp[g].live /\ chl_list[g] # << >> => grp'[g].live
  PROVE  GroupsInv'
<1>1. \A c \in Chans : chan'[c].cgroup = chan[c].cgroup
  BY DEF SameGroups
<1>2. OnePlace(chl_list')
  BY DEF GroupsInv, GroupsPartition
<1>3. \A g \in Groups : \A c : OnList(chl_list', g, c) <=> OnList(chl_list, g, c)
  OBVIOUS
<1>4. GroupsPartition'
  BY <1>1, <1>2, <1>3 DEF GroupsInv, GroupsPartition
<1> QED
  BY <1>4 DEF GroupsInv

\* A step that touches no group and keeps the channels.
LEMMA NoGroupKeeps ==
  ASSUME IndInv, GroupsInv, UNCHANGED << chan, chl_list >>,
         \A g \in Groups : grp[g].live => grp'[g].live
  PROVE  GroupsInv'
<1>1. SameGroups(chan')
  BY SameGroupsNow
<1> QED
  BY <1>1, SameGroupsKeep

LEMMA SndSameGroups ==
  ASSUME IndInv, GroupsInv, NEW c \in Chans, NEW s, NEW th, NEW v, NEW k, Snd(s, th, c, v, k)
  PROVE  GroupsInv'
<1>1. UNCHANGED << grp, chl_list >>
  BY DEF Snd
<1>2. SameGroups(chan)
  BY SameGroupsNow
<1>3. CASE SndNoReceiver(s, th, c, k) \/ SndHandOff(s, th, c, v, k)
  BY <1>1, <1>3, NoGroupKeeps DEF SndNoReceiver, SndHandOff
<1>4. CASE SndBuffer(s, th, c, v, k)
  <2> DEFINE ch == [chan EXCEPT ![c].ready = TRUE]
             b == Append(chan[c].buffer, v)
  <2>1. SameGroups(ch)
    BY <1>2, SameGroupsUpdate
  <2>2. chan' = [ch EXCEPT ![c].buffer = b]
    <3>1. chan' = [chan EXCEPT ![c].ready = TRUE, ![c].buffer = Append(@, v)]
      BY <1>4 DEF SndBuffer
    <3>2. chan \in [Chans -> Channel] /\ ch[c].buffer = chan[c].buffer
      BY DEF IndInv, TypeOK, Channel
    <3> QED
      BY <3>1, <3>2
  <2> HIDE DEF ch, b
  <2> QED
    BY <1>1, <2>1, <2>2, SameGroupsUpdate, SameGroupsKeep
<1>5. CASE SndBlock(s, th, c, v, k)
  <2>1. chan' = [chan EXCEPT ![c].ready = TRUE]
    BY <1>5 DEF SndBlock
  <2> QED
    BY <1>1, <1>2, <2>1, SameGroupsUpdate, SameGroupsKeep
<1> QED
  BY <1>3, <1>4, <1>5 DEF Snd

LEMMA RcvReturnsSameGroups ==
  ASSUME NEW ch, SameGroups(ch), NEW c, NEW v, NEW k, NEW x, NEW s,
         RcvReturns(c, v, k, x, s, ch)
  PROVE  SameGroups(chan')
<1>1. CASE k = "lwt_rcv_chan" /\ v \in Chans
  <2> DEFINE n == ch[v].snd_cnt + 1
  <2>1. chan' = [ch EXCEPT ![v].snd_cnt = n]
    BY <1>1 DEF RcvReturns
  <2> HIDE DEF n
  <2> QED
    BY <1>1, <2>1, SameGroupsUpdate
<1>2. CASE ~(k = "lwt_rcv_chan" /\ v \in Chans)
  BY <1>2 DEF RcvReturns
<1> QED
  BY <1>1, <1>2

LEMMA RcvSameGroups ==
  ASSUME IndInv, GroupsInv, NEW c \in Chans, NEW k, NEW x, Rcv(c, k, x)
  PROVE  GroupsInv'
<1>1. UNCHANGED << grp, chl_list >>
  BY DEF Rcv
<1>2. SameGroups(chan)
  BY SameGroupsNow
<1>3. CASE RcvBuffer(c, k, x)
  <2> DEFINE s == IF sched.queue[c] = << >> THEN sched
                  ELSE resume_thread(sched, Head(sched.queue[c]))
             q == Refilled(c)
             b == q # << >>
             filled == [chan EXCEPT ![c].buffer = q]
             ch == [filled EXCEPT ![c].ready = b]
  <2>1. RcvReturns(c, Head(chan[c].buffer), k, x, s,
                   [chan EXCEPT ![c].buffer = q, ![c].ready = b])
    BY <1>3 DEF RcvBuffer
  <2>2. [chan EXCEPT ![c].buffer = q, ![c].ready = b] = ch
    OBVIOUS
  <2> HIDE DEF q, b, s
  <2>3. SameGroups(filled)
    BY <1>2, SameGroupsUpdate
  <2> HIDE DEF filled
  <2>4. SameGroups(ch)
    BY <2>3, SameGroupsUpdate
  <2> HIDE DEF ch
  <2> QED
    BY <1>1, <2>1, <2>2, <2>4, RcvReturnsSameGroups, SameGroupsKeep
<1>4. CASE RcvSender(c, k, x)
  <2> DEFINE b == SendersLeft(c)
             ch == [chan EXCEPT ![c].ready = b]
             v == thd[Head(sched.queue[c])].message_data
             s == resume_thread(sched, Head(sched.queue[c]))
  <2>1. RcvReturns(c, v, k, x, s, ch)
    BY <1>4 DEF RcvSender
  <2> HIDE DEF b, v, s
  <2>2. SameGroups(ch)
    BY <1>2, SameGroupsUpdate
  <2> HIDE DEF ch
  <2> QED
    BY <1>1, <2>1, <2>2, RcvReturnsSameGroups, SameGroupsKeep
<1>5. CASE RcvBlock(c, k)
  BY <1>1, <1>5, NoGroupKeeps DEF RcvBlock
<1> QED
  BY <1>3, <1>4, <1>5 DEF Rcv

\* A channel in recycled memory keeps the group the block was in.
LEMMA NewChanGroup ==
  ASSUME IndInv, NEW c \in Chans, NEW size
  PROVE  "cgroup" \in DOMAIN NewChan(c, size) /\ NewChan(c, size).cgroup = chan[c].cgroup
<1>1. chan[c] \in Channel
  BY ChannelOf DEF IndInv
<1> QED
  BY <1>1 DEF NewChan, Channel

LEMMA LwtChanSameGroups ==
  ASSUME IndInv, GroupsInv, NEW c \in Chans, NEW size, lwt_chan(c, size)
  PROVE  GroupsInv'
<1> DEFINE n == NewChan(c, size)
<1>1. chan' = [chan EXCEPT ![c] = n] /\ UNCHANGED << grp, chl_list >>
  BY DEF lwt_chan
<1>2. "cgroup" \in DOMAIN n /\ n.cgroup = chan[c].cgroup
  BY NewChanGroup
<1> HIDE DEF n
<1>3. SameGroups(chan')
  BY <1>1, <1>2, SameGroupsNow DEF SameGroups
<1> QED
  BY <1>1, <1>3, SameGroupsKeep

LEMMA LwtChanDerefSameGroups ==
  ASSUME IndInv, GroupsInv, NEW c \in Chans, lwt_chan_deref(c)
  PROVE  GroupsInv'
<1> DEFINE d == Dereferenced(c)
           n == Freed(d)
<1>1. chan' = [chan EXCEPT ![c] = n] /\ UNCHANGED << grp, chl_list >>
  BY DEF lwt_chan_deref
<1>2. d \in Channel /\ d.cgroup = chan[c].cgroup
  <2>1. chan[c] \in Channel /\ chan[c].snd_cnt - 1 \in Int
    BY ChannelOf DEF IndInv
  <2>2. d \in Channel
    BY <2>1, ChannelUpdates DEF Dereferenced
  <2>3. d.cgroup = chan[c].cgroup
    BY <2>1 DEF Dereferenced, Channel
  <2> QED
    BY <2>2, <2>3
<1> HIDE DEF d
<1>3. "cgroup" \in DOMAIN n /\ n.cgroup = chan[c].cgroup
  BY <1>2 DEF Freed, Channel
<1> HIDE DEF n
<1>4. SameGroups(chan')
  BY <1>1, <1>3, SameGroupsNow DEF SameGroups
<1> QED
  BY <1>1, <1>4, SameGroupsKeep

LEMMA CreateSameGroups ==
  ASSUME IndInv, GroupsInv, NEW t, NEW x \in Chans, NEW nojoin, NEW given,
         Create(t, x, nojoin, given)
  PROVE  GroupsInv'
<1>1. /\ UNCHANGED << grp, chl_list >>
      /\ chan' = [c \in Chans |->
                    IF c = x THEN [NewChan(c, 0) EXCEPT !.snd_cnt = 1]
                    ELSE IF c = given THEN [chan[c] EXCEPT !.snd_cnt = @ + 1] ELSE chan[c]]
  BY DEF Create
<1>2. ASSUME NEW c \in Chans
      PROVE  "cgroup" \in DOMAIN chan'[c] /\ chan'[c].cgroup = chan[c].cgroup
  <2>1. chan[c] \in Channel
    BY ChannelOf DEF IndInv
  <2>2. CASE c = x
    <3> DEFINE n == NewChan(c, 0)
    <3>1. "cgroup" \in DOMAIN n /\ n.cgroup = chan[c].cgroup
      BY NewChanGroup
    <3>2. chan'[c] = [n EXCEPT !.snd_cnt = 1]
      BY <1>1, <2>2
    <3> HIDE DEF n
    <3> QED
      BY <3>1, <3>2
  <2>3. CASE c # x
    BY <1>1, <2>1, <2>3 DEF Channel
  <2> QED
    BY <2>2, <2>3
<1>3. SameGroups(chan')
  BY <1>1, <1>2 DEF SameGroups
<1> QED
  BY <1>1, <1>3, SameGroupsKeep

LEMMA WaitLoopSameGroups ==
  ASSUME IndInv, GroupsInv, NEW g, WaitLoop(g)
  PROVE  GroupsInv'
<1>1. UNCHANGED << chan, chl_list >> /\ grp \in [Groups -> Group]
  BY DEF WaitLoop, IndInv, TypeOK
<1>2. PICK b : grp' = [grp EXCEPT ![g].blocked = b]
  BY DEF WaitLoop, WaitReturns, WaitBlocks
<1>3. \A h \in Groups : grp'[h].live = grp[h].live
  BY <1>1, <1>2 DEF Group
<1> QED
  BY <1>1, <1>3, NoGroupKeeps

-----------------------------------------------------------------------------
(* The calls that change groups.                                            *)

LEMMA LwtCgrpGroups ==
  ASSUME IndInv, GroupsInv, NEW g \in Groups, lwt_cgrp(g)
  PROVE  GroupsInv'
<1>1. /\ ~grp[g].live /\ UNCHANGED chan
      /\ grp' = [grp EXCEPT ![g] = [live |-> TRUE, owner |-> me, blocked |-> FALSE]]
      /\ chl_list' = [chl_list EXCEPT ![g] = << >>]
  BY DEF lwt_cgrp, list_head_init
<1>2. grp \in [Groups -> Group] /\ chl_list \in [Groups -> Seq(Chans)]
  BY DEF IndInv, TypeOK
<1>3. chl_list' = chl_list
  BY <1>1, <1>2 DEF GroupsInv
<1>4. \A h \in Groups : grp[h].live => grp'[h].live
  BY <1>1, <1>2
<1> QED
  BY <1>1, <1>3, <1>4, NoGroupKeeps

LEMMA LwtCgrpAddGroups ==
  ASSUME IndInv, GroupsInv, NEW g \in Groups, NEW c \in Chans, lwt_cgrp_add(g, c)
  PROVE  GroupsInv'
<1>0. chan \in [Chans -> Channel] /\ chl_list \in [Groups -> Seq(Chans)]
  BY DEF IndInv, TypeOK
<1>1. CASE UNCHANGED vars
  BY <1>1, NoGroupKeeps DEF vars
<1>2. CASE /\ chan[c].cgroup = NULL
           /\ chl_list' = list_head_append(chl_list, g, c)
           /\ chan' = [chan EXCEPT ![c].cgroup = g]
           /\ UNCHANGED grp
  <2>1. \A h \in Groups : ~OnList(chl_list, h, c)
    BY <1>2, LwtAssumption DEF GroupsInv, GroupsPartition
  <2>2. /\ OnePlace(chl_list')
        /\ \A h \in Groups : \A y : OnList(chl_list', h, y) <=>
                                      OnList(chl_list, h, y) \/ (h = g /\ y = c)
    BY <1>0, <1>2, <2>1, AppendFamily DEF GroupsInv, GroupsPartition
  <2>3. /\ chan'[c].cgroup = g
        /\ \A y \in Chans \ {c} : chan'[y].cgroup = chan[y].cgroup
    BY <1>0, <1>2 DEF Channel
  <2>4. GroupsPartition'
    BY <2>1, <2>2, <2>3 DEF GroupsInv, GroupsPartition
  <2>5. ASSUME NEW h \in Groups, ~grp'[h].live
        PROVE  chl_list'[h] = << >>
    <3>1. grp[g].live
      BY DEF lwt_cgrp_add, MayAdd, MayGroup
    <3>2. chl_list'[h] = chl_list[h]
      BY <1>0, <1>2, <2>5, <3>1 DEF list_head_append
    <3> QED
      BY <1>2, <2>5, <3>2 DEF GroupsInv
  <2> QED
    BY <2>4, <2>5 DEF GroupsInv
<1> QED
  BY <1>1, <1>2 DEF lwt_cgrp_add

LEMMA LwtCgrpRemGroups ==
  ASSUME IndInv, GroupsInv, NEW g \in Groups, NEW c \in Chans, lwt_cgrp_rem(g, c)
  PROVE  GroupsInv'
<1>0. chan \in [Chans -> Channel] /\ chl_list \in [Groups -> Seq(Chans)]
  BY DEF IndInv, TypeOK
<1>1. CASE UNCHANGED vars
  BY <1>1, NoGroupKeeps DEF vars
<1>2. CASE /\ chl_list' = list_rem(chl_list, c)
           /\ chan' = [chan EXCEPT ![c].cgroup = NULL]
           /\ UNCHANGED grp
  <2>1. /\ OnePlace(chl_list')
        /\ \A h \in Groups : \A y : OnList(chl_list', h, y) <=> OnList(chl_list, h, y) /\ y # c
    BY <1>0, <1>2, RemFamily DEF GroupsInv, GroupsPartition
  <2>2. /\ chan'[c].cgroup = NULL
        /\ \A y \in Chans \ {c} : chan'[y].cgroup = chan[y].cgroup
    BY <1>0, <1>2 DEF Channel
  <2>3. GroupsPartition'
    BY <2>1, <2>2, LwtAssumption DEF GroupsInv, GroupsPartition
  <2>4. ASSUME NEW h \in Groups, ~grp'[h].live
        PROVE  chl_list'[h] = << >>
    <3>1. chl_list[h] = << >>
      BY <1>2, <2>4 DEF GroupsInv
    <3>2. chl_list'[h] = Unlinked(chl_list[h], c)
      BY <1>0, <1>2 DEF list_rem
    <3> QED
      BY <3>1, <3>2 DEF Unlinked
  <2> QED
    BY <2>3, <2>4 DEF GroupsInv
<1> QED
  BY <1>1, <1>2 DEF lwt_cgrp_rem

LEMMA LwtCgrpFreeGroups ==
  ASSUME IndInv, GroupsInv, NEW g \in Groups, lwt_cgrp_free(g)
  PROVE  GroupsInv'
<1>1. CASE UNCHANGED vars
  BY <1>1, NoGroupKeeps DEF vars
<1>2. CASE /\ chl_list[g] = << >>
           /\ grp' = [grp EXCEPT ![g].live = FALSE]
           /\ UNCHANGED << chan, chl_list >>
  <2>1. \A h \in Groups : grp[h].live /\ chl_list[h] # << >> => grp'[h].live
    BY <1>2 DEF IndInv, TypeOK
  <2>2. SameGroups(chan')
    BY <1>2, SameGroupsNow
  <2> QED
    BY <1>2, <2>1, <2>2, SameGroupsKeep
<1> QED
  BY <1>1, <1>2 DEF lwt_cgrp_free

-----------------------------------------------------------------------------
(* The theorem.                                                             *)

LEMMA InitGroupsInv == Init => GroupsInv
<1> SUFFICES ASSUME Init
             PROVE  GroupsInv
  OBVIOUS
<1>1. /\ chl_list = [g \in Groups |-> << >>]
      /\ \A c \in Chans : chan[c].cgroup = NULL
  BY DEF Init
<1>2. OnePlace(chl_list)
  BY <1>1 DEF OnePlace
<1>3. \A g \in Groups : \A c : ~OnList(chl_list, g, c)
  BY <1>1 DEF OnList
<1> QED
  BY <1>1, <1>2, <1>3, LwtAssumption DEF GroupsInv, GroupsPartition

\* Everything but the five calls on groups.
LEMMA ThreadAndChanSteps ==
  ASSUME IndInv, GroupsInv, ThreadStep \/ ChanStep
  PROVE  GroupsInv'
<1>1. ASSUME NEW t \in Threads, NEW x \in Chans, NEW nojoin, lwt_create(t, x, nojoin)
      PROVE  GroupsInv'
  BY <1>1, CreateSameGroups DEF lwt_create
<1>2. ASSUME NEW t \in Threads, NEW x \in Chans, NEW c, lwt_create_chan(t, x, c)
      PROVE  GroupsInv'
  BY <1>2, CreateSameGroups DEF lwt_create_chan
<1>3. ASSUME NEW t, lwt_yield(t)
      PROVE  GroupsInv'
  BY <1>3, NoGroupKeeps DEF lwt_yield
<1>4. ASSUME NEW t \in Threads, lwt_join(t)
      PROVE  GroupsInv'
  <2>1. CASE UNCHANGED vars
    BY <2>1, NoGroupKeeps DEF vars
  <2>2. CASE thd[t].parent = me /\ Rcv(thd[t].chl, "lwt_join", t)
    <3>1. me # NULL
      BY <1>4 DEF lwt_join, Client
    <3>2. thd[t].chl \in Chans
      BY <2>2, <3>1 DEF IndInv, ThreadsInv
    <3> QED
      BY <2>2, <3>2, RcvSameGroups
  <2> QED
    BY <1>4, <2>1, <2>2 DEF lwt_join
<1>5. ASSUME NEW v, lwt_die(v)
      PROVE  GroupsInv'
  <2>1. me \in Threads /\ me # MainThread /\ sched.state[me] \notin Gone
    BY <1>5, CurrentIsThread DEF lwt_die, Client
  <2>2. thd[me].chl \in Chans
    BY <2>1 DEF IndInv, ThreadsInv, Gone
  <2> QED
    BY <1>5, <2>2, SndSameGroups DEF lwt_die
<1>6. CASE JoinReturns
  BY <1>6, NoGroupKeeps DEF JoinReturns
<1>7. ASSUME NEW c \in Chans, NEW size, lwt_chan(c, size)
      PROVE  GroupsInv'
  BY <1>7, LwtChanSameGroups
<1>8. ASSUME NEW c \in Chans, lwt_chan_deref(c)
      PROVE  GroupsInv'
  BY <1>8, LwtChanDerefSameGroups
<1>9. ASSUME NEW c \in Chans, NEW v, lwt_snd(c, v) \/ lwt_snd_chan(c, v)
      PROVE  GroupsInv'
  BY <1>9, SndSameGroups DEF lwt_snd, lwt_snd_chan
<1>10. ASSUME NEW c \in Chans, lwt_rcv(c) \/ lwt_rcv_chan(c)
       PROVE  GroupsInv'
  BY <1>10, RcvSameGroups DEF lwt_rcv, lwt_rcv_chan
<1>11. CASE SndResumes
  BY <1>11, NoGroupKeeps DEF SndResumes
<1>12. CASE RcvResumes
  <2>1. SameGroups(chan')
    BY <1>12, SameGroupsNow, RcvReturnsSameGroups DEF RcvResumes
  <2> QED
    BY <1>12, <2>1, SameGroupsKeep DEF RcvResumes
<1>13. CASE ThreadStep
  BY <1>1, <1>2, <1>3, <1>4, <1>5, <1>6, <1>13 DEF ThreadStep
<1>14. CASE ChanStep
  BY <1>7, <1>8, <1>9, <1>10, <1>11, <1>12, <1>14 DEF ChanStep
<1> QED
  BY <1>13, <1>14

LEMMA NextGroupsInv == IndInv /\ GroupsInv /\ [Next]_vars => GroupsInv'
<1> SUFFICES ASSUME IndInv, GroupsInv, [Next]_vars
             PROVE  GroupsInv'
  OBVIOUS
<1>1. CASE ThreadStep \/ ChanStep
  BY <1>1, ThreadAndChanSteps
<1>2. CASE GroupStep
  <2>1. ASSUME NEW g \in Groups, lwt_cgrp(g)
        PROVE  GroupsInv'
    BY <2>1, LwtCgrpGroups
  <2>2. ASSUME NEW g \in Groups, NEW c \in Chans, lwt_cgrp_add(g, c)
        PROVE  GroupsInv'
    BY <2>2, LwtCgrpAddGroups
  <2>3. ASSUME NEW g \in Groups, NEW c \in Chans, lwt_cgrp_rem(g, c)
        PROVE  GroupsInv'
    BY <2>3, LwtCgrpRemGroups
  <2>4. ASSUME NEW g \in Groups, lwt_cgrp_free(g)
        PROVE  GroupsInv'
    BY <2>4, LwtCgrpFreeGroups
  <2>5. ASSUME NEW g \in Groups, lwt_cgrp_wait(g)
        PROVE  GroupsInv'
    <3>1. CASE UNCHANGED vars
      BY <3>1, NoGroupKeeps DEF vars
    <3> QED
      BY <2>5, <3>1, WaitLoopSameGroups DEF lwt_cgrp_wait
  <2>6. CASE WaitResumes
    BY <2>6, WaitLoopSameGroups DEF WaitResumes
  <2> QED
    BY <1>2, <2>1, <2>2, <2>3, <2>4, <2>5, <2>6 DEF GroupStep
<1>3. CASE UNCHANGED vars
  BY <1>3, NoGroupKeeps DEF vars
<1> QED
  BY <1>1, <1>2, <1>3 DEF Next

\* A channel is in the list of the group its cgroup field names, once, and in
\* no other: lwt_cgrp_add and lwt_cgrp_rem keep list and field together, and
\* nothing else moves either, not even when a channel's block is recycled.
THEOREM GroupsAgree == Spec => []GroupsPartition
<1>1. Init => IndInv /\ GroupsInv
  BY InitIndInv, InitGroupsInv
<1>2. IndInv /\ GroupsInv /\ [Next]_vars => (IndInv /\ GroupsInv)'
  BY NextIndInv, NextGroupsInv
<1>3. IndInv /\ GroupsInv => GroupsPartition
  BY DEF GroupsInv
<1> QED
  BY <1>1, <1>2, <1>3, PTL DEF Spec
=============================================================================
