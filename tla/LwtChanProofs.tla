--------------------------- MODULE LwtChanProofs ---------------------------
(***************************************************************************)
(* What holds of the channels, and of those who wait on them, when         *)
(* clients keep the rules of the discipline that each theorem names: no    *)
(* memory is used after it is freed, no thread is forgotten, an event is   *)
(* a message, nobody dies unjoined, and the channels implement             *)
(* FifoChannels.                                                           *)
(***************************************************************************)
EXTENDS LwtStepProofs

Occurs(s, x) == \E i \in DOMAIN s : s[i] = x

\* The elements of three sequences in a row.
LEMMA ConcatElements ==
  ASSUME NEW V, NEW h \in Seq(V), NEW b \in Seq(V), NEW q \in Seq(V), NEW x,
         NEW p, p = h \o b \o q
  PROVE  Occurs(p, x) <=> (Occurs(h, x) \/ Occurs(b, x) \/ Occurs(q, x))
<1>1. /\ DOMAIN h = 1 .. Len(h) /\ DOMAIN b = 1 .. Len(b) /\ DOMAIN q = 1 .. Len(q)
      /\ Len(h) \in Nat /\ Len(b) \in Nat /\ Len(q) \in Nat
  OBVIOUS
<1>2. /\ DOMAIN p = 1 .. Len(h) + Len(b) + Len(q)
      /\ \A i \in 1 .. Len(h) + Len(b) + Len(q) :
           p[i] = IF i <= Len(h) THEN h[i]
                  ELSE IF i <= Len(h) + Len(b) THEN b[i - Len(h)] ELSE q[i - Len(h) - Len(b)]
  OBVIOUS
<1>3. ASSUME NEW i \in DOMAIN p, p[i] = x
      PROVE  \/ \E j \in DOMAIN h : h[j] = x
             \/ \E j \in DOMAIN b : b[j] = x
             \/ \E j \in DOMAIN q : q[j] = x
  <2>1. CASE i <= Len(h)
    BY <1>1, <1>2, <1>3, <2>1
  <2>2. CASE i > Len(h) /\ i <= Len(h) + Len(b)
    <3>1. i - Len(h) \in 1 .. Len(b) /\ b[i - Len(h)] = x
      BY <1>1, <1>2, <1>3, <2>2
    <3> QED
      BY <1>1, <3>1
  <2>3. CASE i > Len(h) + Len(b)
    <3>1. i - Len(h) - Len(b) \in 1 .. Len(q) /\ q[i - Len(h) - Len(b)] = x
      BY <1>1, <1>2, <1>3, <2>3
    <3> QED
      BY <1>1, <3>1
  <2> QED
    BY <1>1, <1>2, <2>1, <2>2, <2>3
<1>4. ASSUME NEW j \in DOMAIN h, h[j] = x
      PROVE  \E i \in DOMAIN p : p[i] = x
  <2>1. j \in DOMAIN p /\ p[j] = x
    BY <1>1, <1>2, <1>4
  <2> QED
    BY <2>1
<1>5. ASSUME NEW j \in DOMAIN b, b[j] = x
      PROVE  \E i \in DOMAIN p : p[i] = x
  <2>1. j + Len(h) \in DOMAIN p /\ p[j + Len(h)] = x
    BY <1>1, <1>2, <1>5
  <2> QED
    BY <2>1
<1>6. ASSUME NEW j \in DOMAIN q, q[j] = x
      PROVE  \E i \in DOMAIN p : p[i] = x
  <2>1. j + Len(h) + Len(b) \in DOMAIN p /\ p[j + Len(h) + Len(b)] = x
    BY <1>1, <1>2, <1>6
  <2> QED
    BY <2>1
<1> QED
  BY <1>3, <1>4, <1>5, <1>6 DEF Occurs

-----------------------------------------------------------------------------
(* The references of a channel, counted.                                    *)

LEMMA HeldElements ==
  ASSUME NEW c \in Chans, NEW p
  PROVE  /\ p \in Held(c) <=> \E t \in Threads : \E i \in 1 .. refs[c][t] : p = << t, i >>
         /\ p \in Held(c)' <=> \E t \in Threads : \E i \in 1 .. refs'[c][t] : p = << t, i >>
  BY DEF Held

\* One more reference, or one in place of those that t held: at most one more
\* element.
LEMMA HeldGrows ==
  ASSUME NEW c \in Chans, IsFiniteSet(Held(c)), NEW t \in Threads,
         \A u \in Threads \ {t} : refs'[c][u] = refs[c][u],
         refs[c][t] \in Int, refs[c][t] >= 0,
         refs'[c][t] = refs[c][t] + 1 \/ refs'[c][t] = 1
  PROVE  IsFiniteSet(Held(c)') /\ Cardinality(Held(c)') <= Cardinality(Held(c)) + 1
<1> DEFINE p == << t, refs'[c][t] >>
           T == Held(c) \cup {p}
<1>1. /\ IsFiniteSet(T) /\ Cardinality(T) <= Cardinality(Held(c)) + 1
      /\ Cardinality(T) \in Nat /\ Cardinality(Held(c)) \in Nat
  <2>1. /\ IsFiniteSet(T)
        /\ Cardinality(T) = IF p \in Held(c) THEN Cardinality(Held(c)) ELSE Cardinality(Held(c)) + 1
    BY FS_AddElement
  <2>2. Cardinality(Held(c)) \in Nat
    BY FS_CardinalityType
  <2> HIDE DEF p, T
  <2> QED
    BY <2>1, <2>2
<1>2. Held(c)' \subseteq T
  <2> SUFFICES ASSUME NEW q \in Held(c)'
               PROVE  q \in T
    OBVIOUS
  <2>0. PICK u \in Threads : \E i \in 1 .. refs'[c][u] : q = << u, i >>
    BY HeldElements
  <2>1. PICK i \in 1 .. refs'[c][u] : q = << u, i >>
    BY <2>0
  <2>2. CASE u # t
    BY <2>1, <2>2, HeldElements
  <2>3. CASE u = t /\ i = refs'[c][t]
    BY <2>1, <2>3
  <2>4. CASE u = t /\ i # refs'[c][t]
    <3>1. i \in 1 .. refs[c][t]
      BY <2>1, <2>4
    <3> QED
      BY <2>1, <2>4, <3>1, HeldElements
  <2> QED
    BY <2>2, <2>3, <2>4
<1>3. IsFiniteSet(Held(c)') /\ Cardinality(Held(c)') <= Cardinality(T)
  BY <1>1, <1>2, FS_Subset
<1>4. Cardinality(Held(c)') \in Nat
  BY <1>3, FS_CardinalityType
<1> QED
  BY <1>1, <1>3, <1>4

\* No more references: no more elements.
LEMMA HeldStays ==
  ASSUME NEW c \in Chans, IsFiniteSet(Held(c)),
         \A u \in Threads : refs'[c][u] = refs[c][u] \/ refs'[c][u] = 0
  PROVE  IsFiniteSet(Held(c)') /\ Cardinality(Held(c)') <= Cardinality(Held(c))
<1>1. Held(c)' \subseteq Held(c)
  <2> SUFFICES ASSUME NEW q \in Held(c)'
               PROVE  q \in Held(c)
    OBVIOUS
  <2>0. PICK u \in Threads : \E i \in 1 .. refs'[c][u] : q = << u, i >>
    BY HeldElements
  <2>1. PICK i \in 1 .. refs'[c][u] : q = << u, i >>
    BY <2>0
  <2>2. refs'[c][u] = refs[c][u]
    BY <2>1
  <2> QED
    BY <2>1, <2>2, HeldElements
<1> QED
  BY <1>1, FS_Subset

\* One reference fewer.
LEMMA HeldShrinks ==
  ASSUME NEW c \in Chans, IsFiniteSet(Held(c)), NEW t \in Threads,
         \A u \in Threads \ {t} : refs'[c][u] = refs[c][u],
         refs[c][t] \in Int, refs[c][t] > 0, refs'[c][t] = refs[c][t] - 1
  PROVE  IsFiniteSet(Held(c)') /\ Cardinality(Held(c)') <= Cardinality(Held(c)) - 1
<1> DEFINE p == << t, refs[c][t] >>
           T == Held(c) \ {p}
<1>0. p \in Held(c)
  BY HeldElements
<1>1. /\ IsFiniteSet(T) /\ Cardinality(T) = Cardinality(Held(c)) - 1
      /\ Cardinality(T) \in Nat /\ Cardinality(Held(c)) \in Nat
  BY <1>0, FS_RemoveElement, FS_CardinalityType
<1>2. Held(c)' \subseteq T
  <2> SUFFICES ASSUME NEW q \in Held(c)'
               PROVE  q \in T
    OBVIOUS
  <2>0. PICK u \in Threads : \E i \in 1 .. refs'[c][u] : q = << u, i >>
    BY HeldElements
  <2>1. PICK i \in 1 .. refs'[c][u] : q = << u, i >>
    BY <2>0
  <2>2. CASE u # t
    BY <2>1, <2>2, HeldElements
  <2>3. CASE u = t
    <3>1. i \in 1 .. refs[c][t] /\ i # refs[c][t]
      BY <2>1, <2>3
    <3> QED
      BY <2>1, <2>3, <3>1, HeldElements
  <2> QED
    BY <2>2, <2>3
<1>3. IsFiniteSet(Held(c)') /\ Cardinality(Held(c)') <= Cardinality(T)
  BY <1>1, <1>2, FS_Subset
<1> QED
  BY <1>1, <1>3

\* None left.
LEMMA NoneHeld ==
  ASSUME NEW c \in Chans, NEW t \in Threads
  PROVE  /\ IsFiniteSet(Held(c)) /\ Cardinality(Held(c)) <= 0 => ~(refs[c][t] \in Int /\ refs[c][t] > 0)
         /\ IsFiniteSet(Held(c)') /\ Cardinality(Held(c)') <= 0 =>
              ~(refs'[c][t] \in Int /\ refs'[c][t] > 0)
<1>1. ASSUME IsFiniteSet(Held(c)), Cardinality(Held(c)) <= 0, refs[c][t] \in Int, refs[c][t] > 0
      PROVE  FALSE
  <2>1. << t, 1 >> \in Held(c)
    BY <1>1, HeldElements
  <2>2. Cardinality(Held(c)) = 0
    BY <1>1, FS_CardinalityType
  <2> QED
    BY <1>1, <2>1, <2>2, FS_EmptySet
<1>2. ASSUME IsFiniteSet(Held(c)'), Cardinality(Held(c)') <= 0, refs'[c][t] \in Int, refs'[c][t] > 0
      PROVE  FALSE
  <2>1. << t, 1 >> \in Held(c)'
    BY <1>2, HeldElements
  <2>2. Cardinality(Held(c)') = 0
    BY <1>2, FS_CardinalityType
  <2> QED
    BY <1>2, <2>1, <2>2, FS_EmptySet
<1> QED
  BY <1>1, <1>2

-----------------------------------------------------------------------------
(* What is on its way.                                                      *)

\* x is handed to the receiver of c, in its buffer, or with a blocked sender.
OnItsWay(c, x) ==
  /\ chan[c].live
  /\ \/ \E r \in Threads : /\ chan[c].receiver = r /\ HandedTo(r, c)
                           /\ thd[r].message_data = x
     \/ \E i \in 1 .. Len(chan[c].buffer) : chan[c].buffer[i] = x
     \/ \E t \in Threads : OnList(sched.queue, c, t) /\ thd[t].message_data = x

LEMMA FlightPlaces == TypeOK => \A x : InFlight(x) <=> \E c \in Chans : OnItsWay(c, x)
<1> SUFFICES ASSUME TypeOK, NEW x, NEW c \in Chans
             PROVE  (chan[c].live /\ \E i \in DOMAIN Pending(c) : Pending(c)[i] = x) <=> OnItsWay(c, x)
  BY DEF InFlight
<1> DEFINE h == Handed(c)
           b == chan[c].buffer
           q == SendersData(c)
           s == sched.queue[c]
           r == chan[c].receiver
<1>1. b \in Seq(Values \cup {NULL}) /\ r \in Threads \cup {NULL} /\ s \in Seq(Threads)
  <2>1. sched.queue \in [Heads -> Seq(Threads)] /\ c \in Heads
    BY DEF TypeOK, Sched, Heads
  <2> QED
    BY <2>1, ChannelOf
<1>2. q = [i \in 1 .. Len(s) |-> thd[s[i]].message_data] /\ Len(s) \in Nat
  BY <1>1 DEF SendersData
<1>3. /\ q \in Seq({thd[t].message_data : t \in Threads}) /\ Len(q) = Len(s)
      /\ \A i \in 1 .. Len(s) : q[i] = thd[s[i]].message_data
  BY <1>1, <1>2
<1>4. /\ h \in Seq({thd[t].message_data : t \in Threads})
      /\ (\E i \in DOMAIN h : h[i] = x) <=>
           \E t \in Threads : r = t /\ HandedTo(t, c) /\ thd[t].message_data = x
  <2>1. CASE r # NULL /\ HandedTo(r, c)
    <3>1. h = << thd[r].message_data >> /\ r \in Threads
      BY <1>1, <2>1 DEF Handed
    <3> QED
      BY <2>1, <3>1
  <2>2. CASE ~(r # NULL /\ HandedTo(r, c))
    <3>1. h = << >>
      BY <2>2 DEF Handed
    <3> QED
      BY <2>2, <3>1, SchedAssumption
  <2> QED
    BY <2>1, <2>2
<1>5. (\E i \in DOMAIN q : q[i] = x) <=> \E t \in Threads : OnList(sched.queue, c, t) /\ thd[t].message_data = x
  BY <1>1, <1>3 DEF OnList
<1> HIDE DEF h, b, q, s, r
<1>6. Pending(c) = h \o b \o q
  BY DEF Pending, h, b, q
<1> DEFINE V == {thd[t].message_data : t \in Threads} \cup Values \cup {NULL}
<1>7. h \in Seq(V) /\ b \in Seq(V) /\ q \in Seq(V)
  BY <1>1, <1>3, <1>4
<1> HIDE DEF V
<1>8. Occurs(Pending(c), x) <=> (Occurs(h, x) \/ Occurs(b, x) \/ Occurs(q, x))
  BY <1>6, <1>7, ConcatElements
<1>9. DOMAIN b = 1 .. Len(b)
  BY <1>7
<1> QED
  BY <1>4, <1>5, <1>8, <1>9 DEF OnItsWay, Occurs, b, r

-----------------------------------------------------------------------------
(* What is on its way is there.                                             *)

\* The channels that the messages of a channel name are there.
LEMMA MessagesLand ==
  ASSUME BaseInv, FlightsLand, NEW c \in Chans, chan[c].live
  PROVE  /\ \A i \in 1 .. Len(chan[c].buffer) : chan[c].buffer[i] \in Chans => chan[c].buffer[i] \in made
         /\ \A t \in Threads : OnList(sched.queue, c, t) /\ thd[t].message_data \in Chans =>
              thd[t].message_data \in made
         /\ \A r \in Threads : chan[c].receiver = r /\ HandedTo(r, c) /\ thd[r].message_data \in Chans =>
              thd[r].message_data \in made
<1>1. ASSUME NEW x \in Chans, OnItsWay(c, x)
      PROVE  x \in made
  BY <1>1, FlightPlaces DEF BaseInv, IndInv, FlightsLand
<1> QED
  BY <1>1 DEF OnItsWay

LEMMA FlightsLandNext ==
  ASSUME TypeOK', \A c, x \in Chans : OnItsWay(c, x)' => x \in made'
  PROVE  FlightsLand'
<1>1. (\A x : InFlight(x) <=> \E c \in Chans : OnItsWay(c, x))'
  BY FlightPlaces, PTL
<1> QED
  BY <1>1 DEF FlightsLand

\* Steps after which the current thread holds no message it was handed.
LEMMA LandFrame ==
  ASSUME BaseInv, FlightsLand, TypeOK', me \in Threads, SameOwners, SameCalls, SameRcving({me}),
         NEW W, OthersStand(W), ~(IsRunnable(sched', me) /\ pc'[me] \in RcvCalls),
         \A u \in Threads \ {me} : pc[u] \in RcvCalls =>
            IF u \in W THEN thd'[u].message_data \in Chans => thd'[u].message_data \in made
                       ELSE thd'[u].message_data = thd[u].message_data,
         \A c \in Chans : chan[c].live => \A i \in 1 .. Len(chan'[c].buffer) :
            chan'[c].buffer[i] \in Chans => chan'[c].buffer[i] \in made,
         \A c \in Chans, t \in Threads : chan[c].live /\ OnList(sched'.queue, c, t) =>
            (thd'[t].message_data \in Chans => thd'[t].message_data \in made)
  PROVE  FlightsLand'
<1> SUFFICES ASSUME NEW c \in Chans, NEW x \in Chans, OnItsWay(c, x)'
             PROVE  x \in made'
  BY FlightsLandNext
<1>1. chan[c].live /\ made' = made
  BY DEF OnItsWay, SameOwners
<1>2. ASSUME NEW r \in Threads, chan'[c].receiver = r, HandedTo(r, c)', thd'[r].message_data = x
      PROVE  x \in made
  <2>1. pc'[r] \in RcvCalls /\ IsRunnable(sched', r) /\ thd'[r].now_rcving = c
    BY <1>2 DEF HandedTo, InRcv, RcvCalls
  <2>2. r # me /\ pc[r] \in RcvCalls /\ thd[r].now_rcving = c /\ chan[c].receiver = r
    BY <1>2, <2>1 DEF SameCalls, SameRcving, SameOwners
  <2>3. CASE r \in W
    BY <1>2, <2>2, <2>3
  <2>4. CASE r \notin W
    <3>1. IsRunnable(sched, r)
      BY <2>1, <2>2, <2>4 DEF OthersStand, Stands, IsRunnable
    <3>2. HandedTo(r, c) /\ thd[r].message_data = x
      BY <1>2, <2>2, <2>4, <3>1 DEF HandedTo, InRcv, RcvCalls
    <3> QED
      BY <1>1, <2>2, <3>2, MessagesLand
  <2> QED
    BY <2>3, <2>4
<1> QED
  BY <1>1, <1>2 DEF OnItsWay

\* The first sender sends, as do all in the queue of a channel.
LEMMA QueueSends ==
  ASSUME BaseInv, NEW c \in Chans
  PROVE  /\ sched.queue[c] \in Seq(Threads)
         /\ \A t \in Threads : OnList(sched.queue, c, t) => pc[t] \notin RcvCalls /\ t # me
         /\ sched.queue[c] # << >> => /\ Head(sched.queue[c]) \in Threads
                                      /\ OnList(sched.queue, c, Head(sched.queue[c]))
<1>1. sched.queue[c] \in Seq(Threads)
  BY DEF BaseInv, IndInv, TypeOK, Sched, Heads
<1>2. ASSUME NEW t \in Threads, OnList(sched.queue, c, t)
      PROVE  pc[t] \notin RcvCalls /\ t # me
  BY <1>2, CurrentFacts DEF BaseInv, ChansInv, SendersHold, Sending, RcvCalls
<1>3. sched.queue[c] # << >> => /\ Head(sched.queue[c]) \in Threads
                                /\ OnList(sched.queue, c, Head(sched.queue[c]))
  BY <1>1 DEF OnList
<1> QED
  BY <1>1, <1>2, <1>3

\* The owner lwt_snd resumes waits on a group.
LEMMA WokenWaits ==
  ASSUME BaseInv, NEW c \in Chans, NEW u \in Threads, u \in Woken(c)
  PROVE  pc[u] = "lwt_cgrp_wait"
<1>1. chan[c].cgroup \in Groups /\ grp[chan[c].cgroup].blocked /\ u = grp[chan[c].cgroup].owner
  BY ChannelOf DEF Woken, BaseInv, IndInv
<1> QED
  BY <1>1 DEF BaseInv, IndInv, BlockedOwnersWait

LEMMA PassesLand ==
  ASSUME BaseInv, FlightsLand, TypeOK', Passes
  PROVE  FlightsLand'
<1>1. /\ me \in Threads /\ SameOwners /\ SameCalls /\ SameRcving({me}) /\ OthersStand({})
      /\ pc'[me] \notin RcvCalls /\ SameContents({}) /\ SameQueues({}) /\ SameData({})
  BY DEF Passes, SendFrame, SameRcving, Leaves, RcvCalls
<1> QED
  BY <1>1, LandFrame, MessagesLand DEF SameContents, SameQueues, SameData, OnList

LEMMA HandsOffLand ==
  ASSUME BaseInv, FlightsLand, TypeOK', NEW c, NEW v, NEW k, HandsOff(c, v, k)
  PROVE  FlightsLand'
<1> DEFINE r == chan[c].receiver
<1>1. /\ me \in Threads /\ SameOwners /\ SameCalls /\ SameRcving({me}) /\ OthersStand({r})
      /\ pc'[me] \notin RcvCalls /\ SameContents({}) /\ SameQueues({}) /\ SameData({me, r})
      /\ r \in Threads /\ ReceiverWaits(c) /\ thd'[r].message_data = v
      /\ v \in Chans => v \in made
  BY DEF HandsOff, Sender, SendFrame, SameRcving, Leaves, RcvCalls
<1>2. \A d \in Chans : ~OnList(sched.queue, d, r)
  BY <1>1 DEF ReceiverWaits, BaseInv, ChansInv, SendersHold, SleepersInside, InRcv, Sending
<1>3. \A d \in Chans, t \in Threads : OnList(sched'.queue, d, t) =>
        OnList(sched.queue, d, t) /\ thd'[t].message_data = thd[t].message_data
  <2>1. \A d \in Chans, t \in Threads : OnList(sched'.queue, d, t) => OnList(sched.queue, d, t)
    BY <1>1 DEF SameQueues, OnList
  <2> QED
    BY <1>1, <1>2, <2>1, QueueSends DEF SameData
<1>4. \A u \in Threads \ {me} : pc[u] \in RcvCalls =>
        IF u \in {r} THEN thd'[u].message_data \in Chans => thd'[u].message_data \in made
                     ELSE thd'[u].message_data = thd[u].message_data
  BY <1>1 DEF SameData
<1> QED
  BY <1>1, <1>3, <1>4, LandFrame, MessagesLand DEF SameContents

LEMMA BuffersLand ==
  ASSUME BaseInv, FlightsLand, TypeOK', NEW c, NEW v, NEW k, Buffers(c, v, k)
  PROVE  FlightsLand'
<1>1. /\ me \in Threads /\ SameOwners /\ SameCalls /\ SameRcving({me}) /\ OthersStand(Woken(c))
      /\ pc'[me] \notin RcvCalls /\ SameContents({c}) /\ SameQueues({}) /\ SameData({me})
      /\ c \in Chans /\ chan'[c].buffer = Append(chan[c].buffer, v)
      /\ v \in Chans => v \in made
  BY DEF Buffers, Sender, SendFrame, SameRcving, Leaves, RcvCalls
<1>2. \A u \in Threads \ {me} : u \in Woken(c) => pc[u] \notin RcvCalls
  BY <1>1, WokenWaits DEF RcvCalls
<1>3. \A d \in Chans, t \in Threads : OnList(sched'.queue, d, t) =>
        OnList(sched.queue, d, t) /\ thd'[t].message_data = thd[t].message_data
  <2>1. \A d \in Chans, t \in Threads : OnList(sched'.queue, d, t) => OnList(sched.queue, d, t)
    BY <1>1 DEF SameQueues, OnList
  <2> QED
    BY <1>1, <2>1, QueueSends DEF SameData
<1>4. ASSUME NEW d \in Chans, chan[d].live, NEW i \in 1 .. Len(chan'[d].buffer),
             chan'[d].buffer[i] \in Chans
      PROVE  chan'[d].buffer[i] \in made
  <2>1. CASE d = c
    <3>1. chan[c].buffer \in Seq(Values \cup {NULL})
      BY <1>1, ChannelOf DEF BaseInv, IndInv
    <3>2. chan'[c].buffer[i] = v \/ (i \in 1 .. Len(chan[c].buffer) /\ chan'[c].buffer[i] = chan[c].buffer[i])
      BY <1>1, <2>1, <3>1
    <3> QED
      BY <1>1, <1>4, <2>1, <3>2, MessagesLand
  <2>2. CASE d # c
    BY <1>1, <1>4, <2>2, MessagesLand DEF SameContents
  <2> QED
    BY <2>1, <2>2
<1> QED
  BY <1>1, <1>2, <1>3, <1>4, LandFrame, MessagesLand DEF SameData

LEMMA BlocksLand ==
  ASSUME BaseInv, FlightsLand, TypeOK', NEW c, NEW v, NEW k, Blocks(c, v, k)
  PROVE  FlightsLand'
<1>1. /\ me \in Threads /\ SameOwners /\ SameCalls /\ SameRcving({me}) /\ OthersStand(Woken(c))
      /\ pc'[me] \notin RcvCalls /\ SameContents({c}) /\ SameQueues({c}) /\ SameData({me})
      /\ c \in Chans /\ chan'[c].buffer = chan[c].buffer
      /\ sched'.queue[c] = Append(sched.queue[c], me)
      /\ thd'[me].message_data = v
      /\ v \in Chans => v \in made
  BY DEF Blocks, Sender, SendFrame, SameRcving, RcvCalls, SndCalls
<1>2. \A u \in Threads \ {me} : u \in Woken(c) => pc[u] \notin RcvCalls
  BY <1>1, WokenWaits DEF RcvCalls
<1>3. ASSUME NEW d \in Chans, NEW t \in Threads, chan[d].live, OnList(sched'.queue, d, t),
             thd'[t].message_data \in Chans
      PROVE  thd'[t].message_data \in made
  <2>1. OnList(sched.queue, d, t) \/ t = me
    <3>1. CASE d = c
      <4>1. PICK i \in 1 .. Len(Append(sched.queue[c], me)) : Append(sched.queue[c], me)[i] = t
        BY <1>1, <1>3, <3>1 DEF OnList
      <4>2. /\ Len(Append(sched.queue[c], me)) = Len(sched.queue[c]) + 1
            /\ \A j \in 1 .. Len(sched.queue[c]) :
                  Append(sched.queue[c], me)[j] = sched.queue[c][j]
            /\ Append(sched.queue[c], me)[Len(sched.queue[c]) + 1] = me
            /\ Len(sched.queue[c]) \in Nat
        BY <1>1, QueueSends, AppendProperties, LenProperties
      <4> QED
        BY <3>1, <4>1, <4>2 DEF OnList
    <3>2. CASE d # c
      BY <1>1, <1>3, <3>2 DEF OnList, SameQueues
    <3> QED
      BY <3>1, <3>2
  <2>2. CASE t = me
    BY <1>1, <1>3, <2>2
  <2>3. CASE t # me
    BY <1>1, <1>3, <2>1, <2>3, MessagesLand DEF SameData
  <2> QED
    BY <2>2, <2>3
<1>4. \A d \in Chans : chan'[d].buffer = chan[d].buffer
  BY <1>1 DEF SameContents
<1> QED
  BY <1>1, <1>2, <1>3, <1>4, LandFrame, MessagesLand DEF SameData

\* Of what lwt_rcv leaves in a channel nothing is new.
LEMMA TakesLand ==
  ASSUME BaseInv, FlightsLand, TypeOK', NEW c, NEW v, NEW k, NEW x, Takes(c, v, k, x)
  PROVE  FlightsLand' /\ (v \in Chans => v \in made)
<1> DEFINE b == chan[c].buffer
           q == sched.queue[c]
<1>1. /\ me \in Threads /\ SameOwners /\ SameCalls /\ SameRcving({me}) /\ Unblocks(c)
      /\ pc'[me] \notin RcvCalls /\ SameContents({c}) /\ SameQueues({c}) /\ SameData({})
      /\ c \in Chans /\ chan[c].receiver = me /\ (FromBuffer(c, v) \/ FromSender(c, v))
  BY DEF Takes, Receiver, Delivers, SameRcving, RcvCalls
<1>2. chan[c].live /\ b \in Seq(Values \cup {NULL})
  BY <1>1, SchedAssumption, ChannelOf DEF BaseInv, IndInv, ChansInv, FreeUnowned
<1>3. q # << >> /\ thd[Head(q)].message_data \in Chans => thd[Head(q)].message_data \in made
  BY <1>1, <1>2, QueueSends, MessagesLand
<1>4. v \in Chans => v \in made
  <2>1. CASE FromBuffer(c, v)
    <3>1. v = b[1] /\ 1 \in 1 .. Len(b)
      BY <1>2, <2>1 DEF FromBuffer
    <3> QED
      BY <1>1, <1>2, <3>1, MessagesLand
  <2>2. CASE FromSender(c, v)
    BY <1>3, <2>2 DEF FromSender
  <2> QED
    BY <1>1, <2>1, <2>2
<1>5. ASSUME NEW i \in 1 .. Len(chan'[c].buffer), chan'[c].buffer[i] \in Chans
      PROVE  chan'[c].buffer[i] \in made
  <2>1. CASE FromBuffer(c, v)
    <3>1. b # << >> /\ chan'[c].buffer = Refilled(c)
      BY <2>1 DEF FromBuffer
    <3> DEFINE m == thd[Head(q)].message_data
    <3>2. Refilled(c) = IF q = << >> THEN Tail(b) ELSE Append(Tail(b), m)
      BY DEF Refilled
    <3>3. /\ Tail(b) \in Seq(Values \cup {NULL}) /\ Len(Tail(b)) = Len(b) - 1 /\ Len(b) \in Nat
          /\ \A j \in 1 .. Len(Tail(b)) : Tail(b)[j] = b[j + 1] /\ j + 1 \in 1 .. Len(b)
      BY <1>2, <3>1
    <3>4. (q # << >> /\ Refilled(c)[i] = m) \/ (i \in 1 .. Len(Tail(b)) /\ Refilled(c)[i] = Tail(b)[i])
      <4> HIDE DEF m, q
      <4> QED
        BY <3>1, <3>2, <3>3
    <3>5. CASE q # << >> /\ Refilled(c)[i] = m
      BY <1>3, <1>5, <3>1, <3>5
    <3>6. CASE i \in 1 .. Len(Tail(b)) /\ Refilled(c)[i] = Tail(b)[i]
      <4>1. i + 1 \in 1 .. Len(b) /\ chan'[c].buffer[i] = b[i + 1]
        BY <3>1, <3>3, <3>6
      <4> QED
        BY <1>1, <1>2, <1>5, <4>1, MessagesLand
    <3> QED
      BY <3>4, <3>5, <3>6
  <2>2. CASE FromSender(c, v)
    BY <1>5, <2>2 DEF FromSender
  <2> QED
    BY <1>1, <2>1, <2>2
<1>6. \A d \in Chans : chan[d].live => \A i \in 1 .. Len(chan'[d].buffer) :
        chan'[d].buffer[i] \in Chans => chan'[d].buffer[i] \in made
  BY <1>1, <1>5, MessagesLand DEF SameContents
<1>7. \A d \in Chans, t \in Threads : chan[d].live /\ OnList(sched'.queue, d, t) =>
        (thd'[t].message_data \in Chans => thd'[t].message_data \in made)
  <2>1. \A d \in Chans, t \in Threads : OnList(sched'.queue, d, t) => OnList(sched.queue, d, t)
    <3>1. \A t \in Threads : OnList(sched'.queue, c, t) => OnList(sched.queue, c, t)
      BY <1>1, TailOnList DEF Unblocks, OnList
    <3>2. \A d \in Chans \ {c}, t \in Threads : OnList(sched'.queue, d, t) => OnList(sched.queue, d, t)
      BY <1>1 DEF SameQueues, OnList
    <3> QED
      BY <3>1, <3>2
  <2> QED
    BY <1>1, <2>1, MessagesLand DEF SameData
<1>8. PICK W : OthersStand(W) /\ \A u \in Threads : u \in W => pc[u] \notin RcvCalls
  BY <1>1, QueueSends DEF Unblocks
<1>9. \A u \in Threads \ {me} : pc[u] \in RcvCalls =>
        IF u \in W THEN thd'[u].message_data \in Chans => thd'[u].message_data \in made
                   ELSE thd'[u].message_data = thd[u].message_data
  BY <1>1, <1>8 DEF SameData
<1> QED
  BY <1>1, <1>4, <1>6, <1>7, <1>8, <1>9, LandFrame

LEMMA AwakesLand ==
  ASSUME BaseInv, FlightsLand, TypeOK', Awakes
  PROVE  FlightsLand' /\ (thd[me].message_data \in Chans => thd[me].message_data \in made)
<1>1. /\ me \in Threads /\ SameOwners /\ SameCalls /\ SameRcving({me}) /\ OthersStand({})
      /\ pc'[me] \notin RcvCalls /\ SameContents({}) /\ SameQueues({}) /\ SameData({}) /\ InRcv(me)
  BY DEF Awakes, Delivers, SameRcving, RcvCalls
<1>2. FlightsLand'
  BY <1>1, LandFrame, MessagesLand DEF SameContents, SameQueues, SameData, OnList
<1>3. PICK c \in Chans : thd[me].now_rcving = c /\ chan[c].receiver = me
  BY <1>1 DEF BaseInv, ChansInv, ReceiversOwn
<1>4. chan[c].live /\ HandedTo(me, c)
  BY <1>1, <1>3, SchedAssumption, CurrentFacts DEF HandedTo, BaseInv, ChansInv, FreeUnowned
<1> QED
  BY <1>1, <1>2, <1>3, <1>4, MessagesLand

LEMMA SleepsLand ==
  ASSUME BaseInv, FlightsLand, TypeOK', NEW c, NEW k, NEW x, Sleeps(c, k, x)
  PROVE  FlightsLand'
<1>1. /\ me \in Threads /\ SameOwners /\ SameCalls /\ SameRcving({me}) /\ OthersStand({})
      /\ ~IsRunnable(sched', me) /\ SameContents({}) /\ SameQueues({}) /\ SameData({})
  BY DEF Sleeps, Receiver, IsRunnable
<1> QED
  BY <1>1, LandFrame, MessagesLand DEF SameContents, SameQueues, SameData, OnList

LEMMA OpensLand ==
  ASSUME BaseInv, FlightsLand, TypeOK', NEW c, NEW size, Opens(c, size)
  PROVE  FlightsLand'
<1>1. /\ me \in Threads /\ pc[me] = "client" /\ c \in Chans /\ chan'[c].receiver = me
      /\ chan'[c].buffer = << >> /\ sched'.queue[c] = << >> /\ SameQueues({c})
      /\ \A d \in Chans \ {c} : chan'[d] = chan[d]
      /\ \A u \in Threads : sched'.state[u] = sched.state[u]
      /\ made \subseteq made' /\ UNCHANGED << thd, pc >>
  BY DEF Opens, Inits, SameChannel
<1> SUFFICES ASSUME NEW d \in Chans, NEW x \in Chans, OnItsWay(d, x)'
             PROVE  x \in made
  BY <1>1, FlightsLandNext
<1>2. \A r \in Threads, e \in Chans : HandedTo(r, e)' <=> HandedTo(r, e)
  BY <1>1 DEF HandedTo, IsRunnable, InRcv
<1>3. d # c
  BY <1>1, <1>2 DEF OnItsWay, HandedTo, InRcv, OnList
<1>4. chan'[d] = chan[d] /\ sched'.queue[d] = sched.queue[d] /\ thd' = thd
  BY <1>1, <1>3 DEF SameQueues
<1> QED
  BY <1>2, <1>4, MessagesLand DEF OnItsWay, OnList

LEMMA SpawnsLand ==
  ASSUME BaseInv, FlightsLand, TypeOK', NEW t, NEW n, NEW given, Spawns(t, n, given)
  PROVE  FlightsLand'
<1>1. /\ me \in Threads /\ pc[me] = "client" /\ n \in Chans /\ chan'[n].receiver = me
      /\ chan'[n].buffer = << >> /\ sched'.queue[n] = << >> /\ SameQueues({n})
      /\ t \in Threads \ {me} /\ pc[t] = "client" /\ pc'[t] = "client" /\ pc'[me] = "client"
      /\ \A d \in Chans \ {n} : /\ chan'[d].live = chan[d].live /\ chan'[d].receiver = chan[d].receiver
                                /\ chan'[d].buffer = chan[d].buffer
      /\ \A u \in Threads \ {t} : sched'.state[u] = sched.state[u] /\ thd'[u] = thd[u] /\ pc'[u] = pc[u]
      /\ made' = made
  BY DEF Spawns, Inits
<1> SUFFICES ASSUME NEW d \in Chans, NEW x \in Chans, OnItsWay(d, x)'
             PROVE  x \in made
  BY <1>1, FlightsLandNext
<1>2. \A r \in Threads : HandedTo(r, d)' => r \notin {t, me} /\ HandedTo(r, d)
  BY <1>1 DEF HandedTo, IsRunnable, InRcv
<1>3. d # n
  BY <1>1, <1>2 DEF OnItsWay, OnList
<1>4. /\ chan'[d].live = chan[d].live /\ chan'[d].receiver = chan[d].receiver
      /\ chan'[d].buffer = chan[d].buffer /\ sched'.queue[d] = sched.queue[d]
  BY <1>1, <1>3 DEF SameQueues
<1>5. \A u \in Threads : OnList(sched'.queue, d, u) => OnList(sched.queue, d, u) /\ u # t
  BY <1>1, <1>4 DEF OnList, BaseInv, ChansInv, SendersHold, Sending
<1> QED
  BY <1>1, <1>2, <1>4, <1>5, MessagesLand DEF OnItsWay

\* MayDeref: the last reference of a channel in flight stays.
LEMMA DropsLand ==
  ASSUME BaseInv, FlightsLand, TypeOK', "deref_in_flight" \notin Careless, NEW c, Drops(c)
  PROVE  FlightsLand'
<1>1. /\ c \in Chans /\ MayDeref(c) /\ me # NULL /\ me \in Threads
      /\ chan'[c].receiver = (IF chan[c].receiver = me THEN NULL ELSE chan[c].receiver)
      /\ chan[c].receiver = me => chan'[c].snd_cnt = chan[c].snd_cnt
      /\ chan'[c].live = (chan[c].live /\ ~(chan'[c].snd_cnt = 0 /\ chan'[c].receiver = NULL))
      /\ chan'[c].buffer = chan[c].buffer
      /\ \A d \in Chans \ {c} : chan'[d] = chan[d]
      /\ made' = (IF chan'[c].live THEN made ELSE made \ {c})
      /\ UNCHANGED << sched, thd, pc >>
  BY SchedAssumption DEF Drops, SameChannel
<1>2. \A r \in Threads, e \in Chans : HandedTo(r, e)' <=> HandedTo(r, e)
  BY <1>1 DEF HandedTo, InRcv
<1> SUFFICES ASSUME NEW d \in Chans, NEW x \in Chans, OnItsWay(d, x)'
             PROVE  x \in made'
  BY FlightsLandNext
<1>3. OnItsWay(d, x)
  <2>1. /\ chan'[d].live => chan[d].live
        /\ \A r \in Threads : chan'[d].receiver = r => chan[d].receiver = r
        /\ chan'[d].buffer = chan[d].buffer /\ sched' = sched /\ thd' = thd
    BY <1>1, SchedAssumption
  <2> QED
    BY <1>2, <2>1 DEF OnItsWay
<1>4. InFlight(x) /\ x \in made
  BY <1>3, FlightPlaces DEF BaseInv, IndInv, FlightsLand
<1>5. CASE chan'[c].live \/ x # c
  BY <1>1, <1>4, <1>5
<1>6. CASE ~chan'[c].live /\ x = c
  <2>1. chan[c].live
    BY <1>4, <1>6 DEF BaseInv, ChansInv, FreeUnowned
  <2>2. \/ chan[c].receiver = me /\ chan[c].snd_cnt > 0
        \/ chan[c].receiver \notin {me, NULL}
    BY <1>1, <1>4, <1>6 DEF MayDeref
  <2>3. chan[c].snd_cnt \in Int
    BY <1>1, ChannelOf DEF BaseInv, IndInv
  <2>4. chan'[c].snd_cnt = 0 /\ chan'[c].receiver = NULL
    BY <1>1, <1>6, <2>1
  <2> QED
    BY <1>1, <2>2, <2>3, <2>4
<1> QED
  BY <1>5, <1>6

LEMMA RegroupsLand ==
  ASSUME BaseInv, FlightsLand, TypeOK', NEW g, NEW c, Adds(g, c) \/ Removes(g, c)
  PROVE  FlightsLand'
<1>1. /\ me \in Threads /\ pc[me] = "client" /\ SameOwners /\ SameContents({})
      /\ UNCHANGED << sched, thd, pc, arg, made >>
  BY DEF Adds, Removes, Regroups, Owner, clientVars
<1>2. SameCalls /\ SameRcving({me}) /\ OthersStand({}) /\ pc'[me] \notin RcvCalls
  BY <1>1 DEF SameCalls, SameRcving, OthersStand, Stands, RcvCalls
<1> QED
  BY <1>1, <1>2, LandFrame, MessagesLand DEF SameContents

LEMMA WaitingLand ==
  ASSUME BaseInv, FlightsLand, TypeOK', NEW g, (\E c \in Chans : Returns(g, c)) \/ Waits(g)
  PROVE  FlightsLand'
<1>1. /\ me \in Threads /\ SameCalls /\ pc'[me] \notin RcvCalls
      /\ OthersStand({}) /\ SameQueues({}) /\ UNCHANGED << thd, chan, made >>
  BY DEF Returns, Waits, Waiting, RcvCalls, OthersStand, Stands, SameQueues
<1>2. SameOwners /\ SameRcving({me})
  BY <1>1 DEF SameOwners, SameRcving
<1> QED
  BY <1>1, <1>2, LandFrame, MessagesLand DEF SameQueues, OnList

LEMMA FlightsStay ==
  ASSUME BaseInv, FlightsLand, TypeOK', UNCHANGED << sched, thd, chan, pc, made >>
  PROVE  FlightsLand'
<1> SUFFICES ASSUME NEW d \in Chans, NEW x \in Chans, OnItsWay(d, x)'
             PROVE  x \in made
  BY FlightsLandNext
<1>1. \A r \in Threads : HandedTo(r, d)' <=> HandedTo(r, d)
  BY DEF HandedTo, InRcv
<1> QED
  BY <1>1, MessagesLand DEF OnItsWay

LEMMA RenewsLand ==
  ASSUME BaseInv, FlightsLand, TypeOK', NEW g, Renews(g)
  PROVE  FlightsLand'
  BY FlightsStay DEF Renews, clientVars

-----------------------------------------------------------------------------
(* References are counted.                                                  *)

\* The references of c are counted, and nobody holds one that clients cannot name.
RefsCountedOf(c) ==
  /\ \A t \in Threads : refs[c][t] >= 0
  /\ c \in made => IsFiniteSet(Held(c)) /\ Cardinality(Held(c)) <= chan[c].snd_cnt
  /\ c \notin made => \A t \in Threads : refs[c][t] = 0

\* No reference of c is taken, and at most other threads' are lost.
LEMMA CountStays ==
  ASSUME TypeOK, TypeOK', NEW c \in Chans, RefsCountedOf(c),
         \A u \in Threads : refs'[c][u] = refs[c][u] \/ refs'[c][u] = 0,
         c \in made' <=> c \in made, chan'[c].snd_cnt = chan[c].snd_cnt
  PROVE  RefsCountedOf(c)'
<1>1. \A t \in Threads : refs'[c][t] >= 0
  BY DEF RefsCountedOf
<1>2. ASSUME c \in made'
      PROVE  IsFiniteSet(Held(c)') /\ Cardinality(Held(c)') <= chan'[c].snd_cnt
  <2>1. IsFiniteSet(Held(c)) /\ Cardinality(Held(c)) <= chan[c].snd_cnt
    BY <1>2 DEF RefsCountedOf
  <2>2. IsFiniteSet(Held(c)') /\ Cardinality(Held(c)') <= Cardinality(Held(c))
    BY <2>1, HeldStays
  <2>3. Cardinality(Held(c)) \in Nat /\ Cardinality(Held(c)') \in Nat /\ chan[c].snd_cnt \in Int
    BY <2>1, <2>2, FS_CardinalityType, ChannelOf
  <2> QED
    BY <2>1, <2>2, <2>3
<1>3. c \notin made' => \A t \in Threads : refs'[c][t] = 0
  BY DEF RefsCountedOf
<1> QED
  BY <1>1, <1>2, <1>3 DEF RefsCountedOf

\* t takes one.
LEMMA CountGrows ==
  ASSUME TypeOK, NEW c \in Chans, RefsCountedOf(c), NEW t \in Threads, c \in made, c \in made',
         \A u \in Threads \ {t} : refs'[c][u] = refs[c][u],
         refs'[c][t] = refs[c][t] + 1 \/ refs'[c][t] = 1, chan'[c].snd_cnt = chan[c].snd_cnt + 1
  PROVE  RefsCountedOf(c)'
<1>0. refs[c][t] \in Int /\ refs[c][t] >= 0
  BY DEF TypeOK, RefsCountedOf
<1>1. \A u \in Threads : refs'[c][u] >= 0
  BY <1>0 DEF RefsCountedOf
<1>2. IsFiniteSet(Held(c)) /\ Cardinality(Held(c)) <= chan[c].snd_cnt
  BY DEF RefsCountedOf
<1>3. IsFiniteSet(Held(c)') /\ Cardinality(Held(c)') <= Cardinality(Held(c)) + 1
  BY <1>0, <1>2, HeldGrows
<1>4. Cardinality(Held(c)) \in Nat /\ Cardinality(Held(c)') \in Nat /\ chan[c].snd_cnt \in Int
  BY <1>2, <1>3, FS_CardinalityType, ChannelOf
<1>5. Cardinality(Held(c)') <= chan'[c].snd_cnt
  BY <1>2, <1>3, <1>4
<1> QED
  BY <1>1, <1>3, <1>5 DEF RefsCountedOf

LEMMA CountsKeep ==
  ASSUME TypeOK, TypeOK', RefsCounted, me \in Threads, made' = made, NEW k, NEW v, Counts(k, v),
         v \in Chans => v \in made
  PROVE  RefsCounted'
<1> SUFFICES ASSUME NEW d \in Chans
             PROVE  RefsCountedOf(d)'
  BY DEF RefsCounted, RefsCountedOf
<1>1. RefsCountedOf(d)
  BY DEF RefsCounted, RefsCountedOf
<1>2. CASE k = "lwt_rcv_chan" /\ d = v
  <2>1. /\ d \in made /\ chan'[d].snd_cnt = chan[d].snd_cnt + 1
        /\ refs'[d][me] = refs[d][me] + 1
        /\ \A u \in Threads \ {me} : refs'[d][u] = refs[d][u] + 0
    BY <1>2 DEF Counts
  <2>2. \A u \in Threads \ {me} : refs'[d][u] = refs[d][u]
    BY <2>1 DEF TypeOK
  <2> QED
    BY <1>1, <2>1, <2>2, CountGrows
<1>3. CASE ~(k = "lwt_rcv_chan" /\ d = v)
  <2>1. chan'[d].snd_cnt = chan[d].snd_cnt + 0 /\ \A u \in Threads : refs'[d][u] = refs[d][u] + 0
    BY <1>3 DEF Counts
  <2>2. chan'[d].snd_cnt = chan[d].snd_cnt /\ \A u \in Threads : refs'[d][u] = refs[d][u]
    BY <2>1, ChannelOf DEF TypeOK
  <2> QED
    BY <1>1, <2>2, CountStays
<1> QED
  BY <1>2, <1>3

LEMMA SameRefsKeep ==
  ASSUME TypeOK, TypeOK', RefsCounted, made' = made, SameRefs
  PROVE  RefsCounted'
<1> SUFFICES ASSUME NEW d \in Chans
             PROVE  RefsCountedOf(d)'
  BY DEF RefsCounted, RefsCountedOf
<1> QED
  BY CountStays DEF RefsCounted, RefsCountedOf, SameRefs

LEMMA OpensKeep ==
  ASSUME BaseInv, TypeOK', RefsCounted, NEW c, NEW size, Opens(c, size)
  PROVE  RefsCounted'
<1>1. /\ c \in Chans /\ ~chan[c].live /\ chan'[c].snd_cnt = 0 /\ made' = made \cup {c}
      /\ \A d \in Chans \ {c} : chan'[d] = chan[d]
      /\ refs' = refs
  BY DEF Opens, Inits, SameChannel
<1> SUFFICES ASSUME NEW d \in Chans
             PROVE  RefsCountedOf(d)'
  BY DEF RefsCounted, RefsCountedOf
<1>2. RefsCountedOf(d)
  BY DEF RefsCounted, RefsCountedOf
<1>3. CASE d # c
  BY <1>1, <1>2, <1>3, CountStays DEF BaseInv, IndInv
<1>4. CASE d = c
  <2>1. \A t \in Threads : refs[c][t] = 0
    BY <1>1, <1>2, <1>4 DEF RefsCountedOf, BaseInv, ChansInv, FreeUnowned
  <2>2. Held(c)' = {}
    <3> SUFFICES ASSUME NEW p \in Held(c)'
                 PROVE  FALSE
      OBVIOUS
    <3>1. PICK t \in Threads : \E i \in 1 .. refs'[c][t] : p = << t, i >>
      BY <1>1, HeldElements
    <3> QED
      BY <1>1, <2>1, <3>1
  <2>3. IsFiniteSet(Held(c)') /\ Cardinality(Held(c)') = 0
    BY <2>2, FS_EmptySet
  <2> QED
    BY <1>1, <1>4, <2>1, <2>3 DEF RefsCountedOf
<1> QED
  BY <1>3, <1>4

LEMMA SpawnsKeep ==
  ASSUME BaseInv, TypeOK', RefsCounted, NEW t, NEW n, NEW given, Spawns(t, n, given)
  PROVE  RefsCounted'
<1>1. /\ n \in Chans /\ n \notin made /\ t \in Threads /\ made' = made
      /\ given # NULL => given \in made
      /\ \A d \in Chans \ {n} : chan'[d].snd_cnt = chan[d].snd_cnt + (IF d = given THEN 1 ELSE 0)
      /\ \A d \in Chans, u \in Threads : refs'[d][u] =
            (IF u # t THEN refs[d][u] ELSE IF d = given THEN 1 ELSE 0)
  BY DEF Spawns, Inits, BaseInv, ChansInv, FreeUnowned
<1> SUFFICES ASSUME NEW d \in Chans
             PROVE  RefsCountedOf(d)'
  BY DEF RefsCounted, RefsCountedOf
<1>2. RefsCountedOf(d) /\ TypeOK
  BY DEF RefsCounted, RefsCountedOf, BaseInv, IndInv
<1>3. given # n /\ d # NULL
  BY <1>1, SchedAssumption
<1>4. CASE d = n
  <2>1. \A u \in Threads : refs'[d][u] = 0
    BY <1>1, <1>2, <1>3, <1>4 DEF RefsCountedOf
  <2> QED
    BY <1>1, <1>4, <2>1 DEF RefsCountedOf
<1>5. CASE d # n /\ d = given
  <2>1. /\ d \in made /\ chan'[d].snd_cnt = chan[d].snd_cnt + 1 /\ refs'[d][t] = 1
        /\ \A u \in Threads \ {t} : refs'[d][u] = refs[d][u]
    BY <1>1, <1>3, <1>5
  <2> QED
    BY <1>1, <1>2, <2>1, CountGrows
<1>6. CASE d # n /\ d # given
  <2>1. /\ chan'[d].snd_cnt = chan[d].snd_cnt + 0
        /\ \A u \in Threads : refs'[d][u] = refs[d][u] \/ refs'[d][u] = 0
    BY <1>1, <1>6
  <2>2. chan'[d].snd_cnt = chan[d].snd_cnt
    BY <1>2, <2>1, ChannelOf
  <2> QED
    BY <1>1, <1>2, <2>1, <2>2, CountStays
<1> QED
  BY <1>4, <1>5, <1>6

LEMMA DropsKeep ==
  ASSUME BaseInv, TypeOK', RefsCounted, NEW c, Drops(c)
  PROVE  RefsCounted'
<1>1. /\ c \in Chans /\ me \in Threads /\ Knows(me, c)
      /\ IF chan[c].receiver = me
           THEN chan'[c].snd_cnt = chan[c].snd_cnt /\ refs' = refs
           ELSE /\ chan'[c].snd_cnt = chan[c].snd_cnt - 1
                /\ \A d \in Chans, u \in Threads : refs'[d][u] =
                     (IF d = c /\ u = me THEN refs[d][u] - 1 ELSE refs[d][u])
      /\ chan'[c].live = (chan[c].live /\ ~(chan'[c].snd_cnt = 0 /\ chan'[c].receiver = NULL))
      /\ \A d \in Chans \ {c} : chan'[d] = chan[d]
      /\ made' = (IF chan'[c].live THEN made ELSE made \ {c})
  BY DEF Drops, SameChannel, MayDeref
<1> SUFFICES ASSUME NEW d \in Chans
             PROVE  RefsCountedOf(d)'
  BY DEF RefsCounted, RefsCountedOf
<1>2. RefsCountedOf(d) /\ TypeOK
  BY DEF RefsCounted, RefsCountedOf, BaseInv, IndInv
<1>3. CASE d # c
  <2>1. \A u \in Threads : refs'[d][u] = refs[d][u]
    BY <1>1, <1>3
  <2>2. chan'[d].snd_cnt = chan[d].snd_cnt /\ (d \in made' <=> d \in made)
    BY <1>1, <1>3
  <2> QED
    BY <1>2, <2>1, <2>2, CountStays
<1>4. CASE d = c
  <2>1. /\ c \in made /\ chan[c].live
        /\ IsFiniteSet(Held(c)) /\ Cardinality(Held(c)) <= chan[c].snd_cnt
    BY <1>1, <1>2, <1>4 DEF Knows, RefsCountedOf, BaseInv, ChansInv, FreeUnowned
  <2>2. /\ \A u \in Threads : refs'[c][u] >= 0
        /\ IsFiniteSet(Held(c)') /\ Cardinality(Held(c)') <= chan'[c].snd_cnt
    <3>1. CASE chan[c].receiver = me
      <4>1. chan'[c].snd_cnt = chan[c].snd_cnt /\ refs' = refs
        BY <1>1, <3>1
      <4>2. Held(c)' = Held(c)
        BY <4>1 DEF Held
      <4> QED
        BY <1>2, <1>4, <2>1, <4>1, <4>2 DEF RefsCountedOf
    <3>2. CASE chan[c].receiver # me
      <4>1. /\ refs[c][me] > 0 /\ refs[c][me] \in Int /\ refs'[c][me] = refs[c][me] - 1
            /\ \A u \in Threads \ {me} : refs'[c][u] = refs[c][u]
            /\ chan'[c].snd_cnt = chan[c].snd_cnt - 1
        BY <1>1, <1>2, <3>2 DEF Knows, TypeOK
      <4>2. IsFiniteSet(Held(c)') /\ Cardinality(Held(c)') <= Cardinality(Held(c)) - 1
        BY <1>1, <2>1, <4>1, HeldShrinks
      <4>3. Cardinality(Held(c)) \in Nat /\ Cardinality(Held(c)') \in Nat /\ chan[c].snd_cnt \in Int
        BY <1>1, <1>2, <2>1, <4>2, FS_CardinalityType, ChannelOf
      <4>4. \A u \in Threads : refs'[c][u] >= 0
        BY <1>2, <1>4, <4>1 DEF RefsCountedOf
      <4> QED
        BY <2>1, <4>1, <4>2, <4>3, <4>4
    <3> QED
      BY <3>1, <3>2
  <2>3. ASSUME c \notin made'
        PROVE  \A u \in Threads : refs'[c][u] = 0
    <3>1. chan'[c].snd_cnt = 0
      BY <1>1, <2>1, <2>3
    <3>2. \A u \in Threads : ~(refs'[c][u] \in Int /\ refs'[c][u] > 0)
      BY <1>1, <2>2, <3>1, NoneHeld
    <3>3. \A u \in Threads : refs'[c][u] \in Int
      BY <1>1 DEF TypeOK
    <3> QED
      BY <2>2, <3>2, <3>3
  <2> QED
    BY <1>4, <2>2, <2>3 DEF RefsCountedOf
<1> QED
  BY <1>3, <1>4

-----------------------------------------------------------------------------
(* The queue of a free channel is empty.                                    *)

LEMMA QuietStays ==
  ASSUME FreeQuiet, SameOwners, NEW C, SameQueues(C), \A c \in C : c \in Chans => chan[c].live
  PROVE  FreeQuiet'
BY DEF FreeQuiet, SameOwners, SameQueues

LEMMA InitsQuiet ==
  ASSUME FreeQuiet, NEW c, NEW size, NEW n, Inits(c, size, n),
         \A d \in Chans \ {c} : chan'[d].live = chan[d].live
  PROVE  FreeQuiet'
BY DEF FreeQuiet, Inits, SameQueues

LEMMA DropsQuiet ==
  ASSUME BaseInv, BaseInv', RefsCounted', FreeQuiet, NEW c, Drops(c)
  PROVE  FreeQuiet'
<1>1. /\ c \in Chans /\ c \in made /\ sched' = sched /\ thd' = thd /\ pc' = pc
      /\ \A d \in Chans \ {c} : chan'[d] = chan[d]
      /\ made' = (IF chan'[c].live THEN made ELSE made \ {c})
  BY DEF Drops, SameChannel, MayDeref, Knows
<1>2. ASSUME ~chan'[c].live, sched'.queue[c] # << >>
      PROVE  FALSE
  <2> DEFINE t == Head(sched.queue[c])
  <2>1. t \in Threads /\ OnList(sched.queue, c, t)
    BY <1>1, <1>2, QueueSends
  <2> HIDE DEF t
  <2>2. IF pc[t] = "lwt_die" THEN c = thd[t].chl ELSE refs'[c][t] > 0
    BY <1>1, <2>1 DEF BaseInv, ChansInv, SendersHold
  <2>3. refs'[c][t] = 0
    BY <1>1, <1>2, <2>1 DEF RefsCounted
  <2>4. c = thd[t].chl
    BY <2>2, <2>3
  <2> QED
    BY <1>1, <2>1, <2>4, SchedAssumption DEF BaseInv, ChansInv, OwnChannels
<1> QED
  BY <1>1, <1>2 DEF FreeQuiet

-----------------------------------------------------------------------------
(* The theorems that need channels in flight to be kept.                    *)

LEMMA StepRefs ==
  ASSUME "deref_in_flight" \notin Careless, BaseInv, BaseInv', RefsInv, Step
  PROVE  RefsInv'
<1>0. TypeOK /\ TypeOK' /\ RefsCounted /\ FlightsLand /\ FreeQuiet
  BY DEF BaseInv, IndInv, RefsInv
<1>1. CASE Passes
  <2>1. SameOwners /\ SameRefs /\ SameQueues({}) /\ made' = made
    BY <1>1 DEF Passes, SendFrame, SameOwners
  <2> QED
    BY <1>0, <1>1, <2>1, SameRefsKeep, PassesLand, QuietStays DEF RefsInv
<1>2. ASSUME NEW c \in Chans, NEW v \in Values, NEW k \in SndCalls,
             HandsOff(c, v, k) \/ Buffers(c, v, k) \/ Blocks(c, v, k)
      PROVE  RefsInv'
  <2>1. SameOwners /\ SameRefs /\ SameQueues({c}) /\ made' = made /\ chan[c].receiver # NULL
    BY <1>2, SchedAssumption DEF HandsOff, Buffers, Blocks, SendFrame, SameOwners, SameQueues
  <2>2. chan[c].live
    BY <2>1 DEF BaseInv, ChansInv, FreeUnowned
  <2>3. FlightsLand'
    BY <1>0, <1>2, HandsOffLand, BuffersLand, BlocksLand
  <2> QED
    BY <1>0, <2>1, <2>2, <2>3, SameRefsKeep, QuietStays DEF RefsInv
<1>3. ASSUME NEW c \in Chans, NEW k \in RcvCalls, NEW x \in Threads \cup {NULL},
             NEW v \in Values \cup {NULL}, Takes(c, v, k, x)
      PROVE  RefsInv'
  <2>1. /\ me \in Threads /\ SameOwners /\ SameQueues({c}) /\ made' = made
        /\ chan[c].receiver = me /\ Counts(k, v)
    BY <1>3 DEF Takes, Receiver, Delivers, SameOwners
  <2>2. chan[c].live
    BY <2>1, SchedAssumption DEF BaseInv, ChansInv, FreeUnowned
  <2>3. FlightsLand' /\ (v \in Chans => v \in made)
    BY <1>0, <1>3, TakesLand
  <2> QED
    BY <1>0, <2>1, <2>2, <2>3, CountsKeep, QuietStays DEF RefsInv
<1>4. ASSUME NEW c \in Chans, NEW k \in RcvCalls, NEW x \in Threads \cup {NULL}, Sleeps(c, k, x)
      PROVE  RefsInv'
  <2>1. SameOwners /\ SameQueues({}) /\ made' = made /\ SameRefs
    BY <1>4 DEF Sleeps, Receiver, SameOwners
  <2> QED
    BY <1>0, <1>4, <2>1, SameRefsKeep, SleepsLand, QuietStays DEF RefsInv
<1>5. CASE Awakes
  <2>1. /\ me \in Threads /\ SameOwners /\ SameQueues({}) /\ made' = made
        /\ Counts(pc[me], thd[me].message_data)
    BY <1>5 DEF Awakes, Delivers, SameOwners
  <2>2. FlightsLand' /\ (thd[me].message_data \in Chans => thd[me].message_data \in made)
    BY <1>0, <1>5, AwakesLand
  <2> QED
    BY <1>0, <2>1, <2>2, CountsKeep, QuietStays DEF RefsInv
<1>6. ASSUME NEW c \in Chans, NEW size \in Nat, Opens(c, size)
      PROVE  RefsInv'
  <2>1. Inits(c, size, 0) /\ \A d \in Chans \ {c} : chan'[d].live = chan[d].live
    BY <1>6 DEF Opens, SameChannel
  <2> QED
    BY <1>0, <1>6, <2>1, OpensKeep, OpensLand, InitsQuiet DEF RefsInv
<1>7. ASSUME NEW t \in Threads, NEW x \in Chans, NEW given \in Chans \cup {NULL},
             Spawns(t, x, given)
      PROVE  RefsInv'
  <2>1. Inits(x, 0, 1) /\ \A d \in Chans \ {x} : chan'[d].live = chan[d].live
    BY <1>7 DEF Spawns
  <2> QED
    BY <1>0, <1>7, <2>1, SpawnsKeep, SpawnsLand, InitsQuiet DEF RefsInv
<1>8. ASSUME NEW c \in Chans, Drops(c)
      PROVE  RefsInv'
  BY <1>0, <1>8, DropsKeep, DropsLand, DropsQuiet DEF RefsInv
<1>9. ASSUME NEW g \in Groups, NEW c \in Chans, Adds(g, c) \/ Removes(g, c)
      PROVE  RefsInv'
  <2>1. SameOwners /\ SameQueues({}) /\ made' = made /\ SameRefs
    BY <1>9 DEF Adds, Removes, Regroups, SameOwners, SameQueues
  <2> QED
    BY <1>0, <1>9, <2>1, SameRefsKeep, RegroupsLand, QuietStays DEF RefsInv
<1>10. ASSUME NEW g \in Groups, (\E c \in Chans : Returns(g, c)) \/ Waits(g)
       PROVE  RefsInv'
  <2>1. SameQueues({}) /\ UNCHANGED << thd, chan, made, refs >>
    BY <1>10 DEF Returns, Waits, Waiting, SameQueues
  <2>2. SameOwners /\ SameRefs
    BY <2>1 DEF SameOwners, SameRefs
  <2> QED
    BY <1>0, <1>10, <2>1, <2>2, SameRefsKeep, WaitingLand, QuietStays DEF RefsInv
<1>11. ASSUME NEW g \in Groups, Renews(g)
       PROVE  RefsInv'
  <2>1. SameOwners /\ SameQueues({}) /\ made' = made /\ SameRefs
    BY <1>11 DEF Renews, clientVars, SameOwners, SameQueues, SameRefs
  <2> QED
    BY <1>0, <1>11, <2>1, SameRefsKeep, RenewsLand, QuietStays DEF RefsInv
<1> QED
  BY <1>1, <1>2, <1>3, <1>4, <1>5, <1>6, <1>7, <1>8, <1>9, <1>10, <1>11 DEF Step

LEMMA InitRefsInv == Init => RefsInv
<1> SUFFICES ASSUME Init
             PROVE  RefsInv
  OBVIOUS
<1>1. /\ \A c \in Chans : ~chan[c].live /\ sched.queue[c] = << >>
      /\ \A c \in Chans, t \in Threads : refs[c][t] = 0
      /\ made = {}
  BY HeadsDistinct DEF Init, SchedInit, Heads
<1> QED
  BY <1>1 DEF RefsInv, RefsCounted, FlightsLand, InFlight, FreeQuiet

LEMMA NextRefsInv ==
  ASSUME "deref_in_flight" \notin Careless, BaseInv /\ RefsInv, [Next]_vars
  PROVE  (BaseInv /\ RefsInv)'
<1>1. BaseInv'
  BY NextBaseInv
<1>2. CASE Next
  BY <1>1, <1>2, NextShape, StepRefs
<1>3. CASE UNCHANGED vars
  <2>1. UNCHANGED << sched, thd, chan, pc, made, refs >>
    BY <1>3 DEF vars
  <2>2. FlightsLand'
    BY <1>1, <2>1, FlightsStay DEF BaseInv, IndInv, RefsInv
  <2>3. RefsCounted' /\ FreeQuiet'
    BY <2>1 DEF RefsInv, RefsCounted, Held, FreeQuiet
  <2> QED
    BY <1>1, <2>2, <2>3 DEF RefsInv
<1> QED
  BY <1>1, <1>2, <1>3

LEMMA RefsInvHolds ==
  ASSUME "deref_in_flight" \notin Careless
  PROVE  Spec => [](BaseInv /\ RefsInv)
<1>1. Init => BaseInv /\ RefsInv
  BY InitBaseInv, InitRefsInv
<1>2. (BaseInv /\ RefsInv) /\ [Next]_vars => (BaseInv /\ RefsInv)'
  BY NextRefsInv
<1> QED
  BY <1>1, <1>2, PTL DEF Spec

\* lwt_chan_deref frees a block only when nothing reaches it any more: no
\* reference, receiver, sleeping thread, queued sender, group or message.
THEOREM FreedIsUnused ==
  ASSUME "deref_in_flight" \notin Careless
  PROVE  Spec => []NoUseAfterFree
<1>1. ASSUME BaseInv, RefsInv
      PROVE  NoUseAfterFree
  <2> SUFFICES ASSUME NEW c \in Chans, ~chan[c].live
               PROVE  /\ chan[c].receiver = NULL
                      /\ \A t \in Threads : refs[c][t] = 0 /\ ~AsleepOn(t, c) /\ event[t] # c
                      /\ sched.queue[c] = << >>
                      /\ ~InFlight(c)
                      /\ \A g \in Groups : grp[g].live => \A i \in DOMAIN chl_list[g] : chl_list[g][i] # c
    BY DEF NoUseAfterFree
  <2>1. /\ c \notin made /\ chan[c].receiver = NULL /\ chan[c].cgroup = NULL
        /\ \A t \in Threads : ~AsleepOn(t, c) /\ event[t] # c
    BY <1>1, FreeFacts
  <2>2. /\ \A t \in Threads : refs[c][t] = 0
        /\ sched.queue[c] = << >> /\ ~InFlight(c)
    BY <1>1, <2>1 DEF RefsInv, RefsCounted, FreeQuiet, FlightsLand
  <2>3. \A g \in Groups : \A i \in DOMAIN chl_list[g] : chl_list[g][i] # c
    BY <1>1, <2>1, ListedChannels, LwtAssumption
  <2> QED
    BY <2>1, <2>2, <2>3
<1>2. BaseInv /\ RefsInv => NoUseAfterFree
  BY <1>1
<1> QED
  BY <1>2, RefsInvHolds, PTL

LEMMA StepCurrent == Step => me \in Threads
<1>1. Passes \/ Awakes => me \in Threads
  BY DEF Passes, Awakes
<1>2. \A c \in Chans, v \in Values, k \in SndCalls :
        HandsOff(c, v, k) \/ Buffers(c, v, k) \/ Blocks(c, v, k) => me \in Threads
  BY DEF HandsOff, Buffers, Blocks, Sender
<1>3. \A c \in Chans, k \in RcvCalls, x \in Threads \cup {NULL} :
        (\E v \in Values \cup {NULL} : Takes(c, v, k, x)) \/ Sleeps(c, k, x) => me \in Threads
  BY DEF Takes, Sleeps, Receiver
<1>4. \A c \in Chans, size \in Nat : Opens(c, size) => me \in Threads
  BY DEF Opens
<1>5. \A t \in Threads, x \in Chans, given \in Chans \cup {NULL} :
        Spawns(t, x, given) => me \in Threads
  BY DEF Spawns
<1>6. \A g \in Groups, c \in Chans :
        Adds(g, c) \/ Removes(g, c) \/ Returns(g, c) => me \in Threads
  BY DEF Adds, Removes, Regroups, Owner, Returns, Waiting
<1>7. \A g \in Groups : Renews(g) \/ Waits(g) => me \in Threads
  BY DEF Renews, Waits, Waiting
<1>8. \A c \in Chans : Drops(c) => me \in Threads
  BY DEF Drops
<1> QED
  BY <1>1, <1>2, <1>3, <1>4, <1>5, <1>6, <1>7, <1>8 DEF Step

LEMMA NextComplete ==
  ASSUME "deref_in_flight" \notin Careless, BaseInv /\ RefsInv /\ NobodyForgotten, [Next]_vars
  PROVE  (BaseInv /\ RefsInv /\ NobodyForgotten)'
<1>1. (BaseInv /\ RefsInv)'
  BY NextRefsInv
<1>2. CASE Next
  <2>1. me # NULL /\ Completes(sched, sched')
    BY <1>2, NextShape, StepCurrent, SchedAssumption DEF RefsInv
  <2>2. NoneMissing(sched) /\ Busy(sched)
    BY CompleteParts DEF NobodyForgotten
  <2>3. NoneMissing(sched') /\ Busy(sched')
    BY <2>1, <2>2 DEF Completes, me
  <2>4. ListsComplete(sched')
    BY <2>3, CompleteParts
  <2> QED
    BY <1>1, <2>4 DEF NobodyForgotten
<1>3. CASE UNCHANGED vars
  BY <1>1, <1>3 DEF vars, NobodyForgotten
<1> QED
  BY <1>1, <1>2, <1>3

LEMMA InitComplete == Init => NobodyForgotten
<1> SUFFICES ASSUME Init
             PROVE  ListsComplete(SchedInit)
  BY DEF Init, NobodyForgotten
<1> DEFINE k == SchedInit
<1>1. k.queue["run_queue"] = << MainThread >> /\ k.current_thread = MainThread
  BY HeadsDistinct DEF SchedInit, Heads
<1>2. \A t \in Threads : IF t = MainThread THEN k.state[t] = "LWT_RUNNING" ELSE k.state[t] = "UNUSED"
  BY DEF SchedInit
<1>3. OnList(k.queue, "run_queue", MainThread)
  BY <1>1 DEF OnList
<1> QED
  BY <1>1, <1>2, <1>3, SchedAssumption DEF ListsComplete, IsRunnable

\* Every thread is on the list its state calls for, and __lwt_schedule finds
\* the run queue empty only when no thread can run.
THEOREM ThreadsRemembered ==
  ASSUME "deref_in_flight" \notin Careless
  PROVE  Spec => []NobodyForgotten
<1>1. Init => BaseInv /\ RefsInv /\ NobodyForgotten
  BY InitBaseInv, InitRefsInv, InitComplete DEF Init, NobodyForgotten
<1>2. (BaseInv /\ RefsInv /\ NobodyForgotten) /\ [Next]_vars => (BaseInv /\ RefsInv /\ NobodyForgotten)'
  BY NextComplete
<1> QED
  BY <1>1, <1>2, PTL DEF Spec

-----------------------------------------------------------------------------
(* The theorems that need, besides, that no receiver leaves messages.       *)

EventTrue(c) ==
  /\ chan[c].receiver = NULL => chan[c].buffer = << >>
  /\ chan[c].ready => chan[c].buffer # << >> \/ sched.queue[c] # << >>

LEMMA TrueFrame ==
  ASSUME EventsTrue, SameOwners, NEW C, SameContents(C), SameQueues(C),
         \A c \in C : c \in Chans => EventTrue(c)'
  PROVE  EventsTrue'
<1> SUFFICES ASSUME NEW c \in Chans
             PROVE  EventTrue(c)'
  BY DEF EventsTrue, EventTrue
<1>1. CASE c \in C
  BY <1>1
<1>2. CASE c \notin C
  BY <1>2 DEF EventsTrue, EventTrue, SameOwners, SameContents, SameQueues
<1> QED
  BY <1>1, <1>2

\* The memory of a freed channel shows no event.
LEMMA InitsTrue ==
  ASSUME BaseInv, me \in Threads, FreeQuiet, EventsTrue, NEW c \in Chans, NEW size, NEW n, Inits(c, size, n),
         \A d \in Chans \ {c} : /\ chan'[d].receiver = chan[d].receiver
                                /\ chan'[d].buffer = chan[d].buffer /\ chan'[d].ready = chan[d].ready
  PROVE  EventsTrue'
<1> SUFFICES ASSUME NEW d \in Chans
             PROVE  EventTrue(d)'
  BY DEF EventsTrue, EventTrue
<1>1. CASE d = c
  <2>1. chan[c].receiver = NULL /\ sched.queue[c] = << >>
    BY DEF Inits, BaseInv, ChansInv, FreeUnowned, FreeQuiet
  <2>2. ~chan[c].ready
    BY <2>1 DEF EventsTrue
  <2> QED
    BY <1>1, <2>2 DEF EventTrue, Inits
<1>2. CASE d # c
  BY <1>2 DEF Inits, SameQueues, EventsTrue, EventTrue
<1> QED
  BY <1>1, <1>2

LEMMA StepTrue ==
  ASSUME "leave_data" \notin Careless, BaseInv, FreeQuiet, EventsTrue, Step
  PROVE  EventsTrue'
<1>1. CASE Passes
  BY <1>1, TrueFrame DEF Passes, SendFrame
<1>2. ASSUME NEW c \in Chans, NEW v \in Values, NEW k \in SndCalls, HandsOff(c, v, k)
      PROVE  EventsTrue'
  BY <1>2, TrueFrame DEF HandsOff, SendFrame
<1>3. ASSUME NEW c \in Chans, NEW v \in Values, NEW k \in SndCalls,
             Buffers(c, v, k) \/ Blocks(c, v, k)
      PROVE  EventsTrue'
  <2>1. /\ SameOwners /\ SameContents({c}) /\ SameQueues({c}) /\ chan'[c].receiver # NULL
    BY <1>3 DEF Buffers, Blocks, SendFrame, SameOwners, SameQueues
  <2>2. chan'[c].buffer # << >> \/ sched'.queue[c] # << >>
    <3>1. chan[c].buffer \in Seq(Values \cup {NULL}) /\ sched.queue[c] \in Seq(Threads)
      BY ChannelOf, QueueSends DEF BaseInv, IndInv
    <3>2. Append(chan[c].buffer, v) # << >> /\ Append(sched.queue[c], me) # << >>
      BY <3>1
    <3> QED
      BY <1>3, <3>2 DEF Buffers, Blocks
  <2> QED
    BY <2>1, <2>2, TrueFrame DEF EventTrue
<1>4. ASSUME NEW c \in Chans, NEW k \in RcvCalls, NEW x \in Threads \cup {NULL},
             NEW v \in Values \cup {NULL}, Takes(c, v, k, x)
      PROVE  EventsTrue'
  <2>1. SameOwners /\ SameContents({c}) /\ SameQueues({c}) /\ chan'[c].receiver # NULL
    BY <1>4, SchedAssumption DEF Takes, Receiver, SameOwners
  <2>2. chan'[c].ready => chan'[c].buffer # << >> \/ sched'.queue[c] # << >>
    BY <1>4, TakenShape
  <2> QED
    BY <2>1, <2>2, TrueFrame DEF EventTrue
<1>5. ASSUME NEW c \in Chans, NEW k \in RcvCalls, NEW x \in Threads \cup {NULL}, Sleeps(c, k, x)
      PROVE  EventsTrue'
  BY <1>5, TrueFrame DEF Sleeps, Receiver
<1>6. CASE Awakes
  BY <1>6, TrueFrame DEF Awakes
<1>7. ASSUME NEW c \in Chans, NEW size \in Nat, Opens(c, size)
      PROVE  EventsTrue'
  BY <1>7, InitsTrue DEF Opens, SameChannel
<1>8. ASSUME NEW t \in Threads, NEW x \in Chans, NEW given \in Chans \cup {NULL},
             Spawns(t, x, given)
      PROVE  EventsTrue'
  BY <1>8, InitsTrue DEF Spawns
<1>9. ASSUME NEW c \in Chans, Drops(c)
      PROVE  EventsTrue'
  <2>1. /\ \A d \in Chans \ {c} : chan'[d] = chan[d]
        /\ chan'[c].receiver = (IF chan[c].receiver = me THEN NULL ELSE chan[c].receiver)
        /\ chan[c].receiver = me => chan[c].buffer = << >>
        /\ chan'[c].buffer = chan[c].buffer /\ chan'[c].ready = chan[c].ready
        /\ sched' = sched
    BY <1>9 DEF Drops, SameChannel, MayDeref
  <2> SUFFICES ASSUME NEW d \in Chans
               PROVE  EventTrue(d)'
    BY DEF EventsTrue, EventTrue
  <2> QED
    BY <2>1 DEF EventsTrue, EventTrue
<1>10. ASSUME NEW g \in Groups, NEW c \in Chans, Adds(g, c) \/ Removes(g, c)
       PROVE  EventsTrue'
  BY <1>10, TrueFrame DEF Adds, Removes, Regroups, SameQueues
<1>11. ASSUME NEW g \in Groups, (\E c \in Chans : Returns(g, c)) \/ Waits(g) \/ Renews(g)
       PROVE  EventsTrue'
  <2>1. SameQueues({}) /\ UNCHANGED << thd, chan, made >>
    BY <1>11 DEF Returns, Waits, Waiting, Renews, clientVars, SameQueues
  <2> QED
    BY <2>1 DEF SameQueues, EventsTrue
<1> QED
  BY <1>1, <1>2, <1>3, <1>4, <1>5, <1>6, <1>7, <1>8, <1>9, <1>10, <1>11 DEF Step

LEMMA InitTrue == Init => EventsTrue
<1> SUFFICES ASSUME Init, NEW c \in Chans
             PROVE  chan[c].buffer = << >> /\ ~chan[c].ready
  BY DEF EventsTrue
<1> QED
  BY DEF Init

LEMMA NextTrue ==
  ASSUME "deref_in_flight" \notin Careless, "leave_data" \notin Careless,
         BaseInv /\ RefsInv /\ EventsTrue, [Next]_vars
  PROVE  (BaseInv /\ RefsInv /\ EventsTrue)'
<1>1. (BaseInv /\ RefsInv)'
  BY NextRefsInv
<1>2. CASE Next
  BY <1>1, <1>2, NextShape, StepTrue DEF RefsInv
<1>3. CASE UNCHANGED vars
  BY <1>1, <1>3 DEF vars, EventsTrue
<1> QED
  BY <1>1, <1>2, <1>3

LEMMA EventsTrueHolds ==
  ASSUME "deref_in_flight" \notin Careless, "leave_data" \notin Careless
  PROVE  Spec => [](BaseInv /\ RefsInv /\ EventsTrue)
<1>1. Init => BaseInv /\ RefsInv /\ EventsTrue
  BY InitBaseInv, InitRefsInv, InitTrue
<1>2. (BaseInv /\ RefsInv /\ EventsTrue) /\ [Next]_vars => (BaseInv /\ RefsInv /\ EventsTrue)'
  BY NextTrue
<1> QED
  BY <1>1, <1>2, PTL DEF Spec

\* A channel shows an event only while it holds a message, although __init_chan
\* leaves ready as the block's last channel left it.
THEOREM EventsHold ==
  ASSUME "deref_in_flight" \notin Careless, "leave_data" \notin Careless
  PROVE  Spec => []NoStaleEvent
<1>1. BaseInv /\ RefsInv /\ EventsTrue => NoStaleEvent
  BY DEF EventsTrue, NoStaleEvent
<1> QED
  BY <1>1, EventsTrueHolds, PTL

\* When a thread comes to receive from the channel that lwt_cgrp_wait gave to
\* it, the message is still there, whatever ran in between.
THEOREM EventsAreHonoured ==
  ASSUME "deref_in_flight" \notin Careless, "leave_data" \notin Careless
  PROVE  Spec => []EventHonoured
<1>1. ASSUME BaseInv, EventsTrue
      PROVE  EventHonoured
  <2>1. \A t \in Threads : event[t] # NULL => event[t] \in Chans /\ chan[event[t]].ready
    BY <1>1 DEF BaseInv, IndInv, TypeOK, ChansInv, EventsKept
  <2> QED
    BY <1>1, <2>1 DEF EventsTrue, EventHonoured
<1>2. BaseInv /\ RefsInv /\ EventsTrue => EventHonoured
  BY <1>1
<1> QED
  BY <1>2, EventsTrueHolds, PTL


-----------------------------------------------------------------------------
(* The theorems that need no thread to wait on groups while it can still be *)
(* sent a message on the channel it blocked on last.                        *)

LEMMA UnaddressedFrame ==
  ASSUME WaitersUnaddressed,
         \A t \in Threads : pc'[t] = "lwt_cgrp_wait" =>
            pc[t] = "lwt_cgrp_wait" /\ thd'[t].now_rcving = thd[t].now_rcving,
         \A t \in Threads : thd'[t].chl = thd[t].chl, made' \subseteq made, joined \subseteq joined',
         \A c \in Chans, t \in Threads : chan'[c].receiver = t => chan[c].receiver = t
  PROVE  WaitersUnaddressed'
BY DEF WaitersUnaddressed, Addressed

LEMMA SendUnaddressed ==
  ASSUME WaitersUnaddressed, SendFrame, pc'[me] # "lwt_cgrp_wait"
  PROVE  WaitersUnaddressed'
BY UnaddressedFrame DEF SendFrame, SameOwners, SameCalls, SameRcving

LEMMA RcvUnaddressed ==
  ASSUME WaitersUnaddressed, SameOwners, SameCalls, SameRcving({me}), joined \subseteq joined',
         pc'[me] # "lwt_cgrp_wait"
  PROVE  WaitersUnaddressed'
BY UnaddressedFrame DEF SameOwners, SameCalls, SameRcving

LEMMA OpensUnaddressed ==
  ASSUME WaitersUnaddressed, NEW c, NEW size, Opens(c, size)
  PROVE  WaitersUnaddressed'
<1> SUFFICES ASSUME NEW t \in Threads, pc'[t] = "lwt_cgrp_wait",
                    NEW d \in Chans, thd'[t].now_rcving = d, chan'[d].receiver = t
             PROVE  ~(Addressed(d)')
  BY DEF WaitersUnaddressed
<1>1. /\ pc[t] = "lwt_cgrp_wait" /\ t # me /\ thd[t].now_rcving = d
      /\ made' = made \cup {c} /\ UNCHANGED << thd, joined >>
      /\ chan'[c].receiver = me /\ \A e \in Chans \ {c} : chan'[e] = chan[e]
  BY DEF Opens, Inits, SameChannel
<1>2. d # c /\ chan[d].receiver = t
  BY <1>1
<1> QED
  BY <1>1, <1>2 DEF WaitersUnaddressed, Addressed

LEMMA SpawnsUnaddressed ==
  ASSUME WaitersUnaddressed, NEW u, NEW c, NEW given, Spawns(u, c, given)
  PROVE  WaitersUnaddressed'
<1> SUFFICES ASSUME NEW t \in Threads, pc'[t] = "lwt_cgrp_wait",
                    NEW d \in Chans, thd'[t].now_rcving = d, chan'[d].receiver = t
             PROVE  ~(Addressed(d)')
  BY DEF WaitersUnaddressed
<1>1. /\ pc[t] = "lwt_cgrp_wait" /\ t # me /\ t # u
      /\ made' = made /\ thd'[u].chl = c /\ joined' = joined \ {u}
      /\ \A w \in Threads \ {u} : thd'[w] = thd[w]
      /\ chan'[c].receiver = me
      /\ \A e \in Chans \ {c} : chan'[e].receiver = chan[e].receiver
  BY DEF Spawns, Inits
<1>2. d # c /\ chan[d].receiver = t /\ thd[t].now_rcving = d
  BY <1>1
<1> QED
  BY <1>1, <1>2 DEF WaitersUnaddressed, Addressed

LEMMA WaitsUnaddressed ==
  ASSUME WaitersUnaddressed, "wait_after_rcv" \notin Careless, NEW g, Waits(g)
  PROVE  WaitersUnaddressed'
<1> SUFFICES ASSUME NEW t \in Threads, pc'[t] = "lwt_cgrp_wait",
                    NEW d \in Chans, thd[t].now_rcving = d, chan[d].receiver = t
             PROVE  ~Addressed(d)
  BY DEF WaitersUnaddressed, Waits, Waiting, Addressed
<1>1. CASE t # me \/ pc[me] = "lwt_cgrp_wait"
  BY <1>1 DEF WaitersUnaddressed, Waits, Waiting, SameCalls
<1>2. CASE t = me /\ pc[me] = "client"
  BY <1>2, SchedAssumption DEF Waits, MayWait
<1> QED
  BY <1>1, <1>2 DEF Waits, Waiting

LEMMA StepUnaddressed ==
  ASSUME WaitersUnaddressed, "wait_after_rcv" \notin Careless, Step
  PROVE  WaitersUnaddressed'
<1>1. CASE Passes
  BY <1>1, SendUnaddressed DEF Passes, Leaves
<1>2. ASSUME NEW c \in Chans, NEW v \in Values, NEW k \in SndCalls,
             HandsOff(c, v, k) \/ Buffers(c, v, k) \/ Blocks(c, v, k)
      PROVE  WaitersUnaddressed'
  <2>1. SendFrame /\ pc'[me] # "lwt_cgrp_wait"
    BY <1>2 DEF HandsOff, Buffers, Blocks, Leaves, SndCalls
  <2> QED
    BY <2>1, SendUnaddressed
<1>3. ASSUME NEW c \in Chans, NEW k \in RcvCalls, NEW x \in Threads \cup {NULL},
             (\E v \in Values \cup {NULL} : Takes(c, v, k, x)) \/ Sleeps(c, k, x)
      PROVE  WaitersUnaddressed'
  <2>1. /\ SameOwners /\ SameCalls /\ SameRcving({me}) /\ pc'[me] # "lwt_cgrp_wait"
        /\ joined \subseteq joined'
    BY <1>3 DEF Takes, Sleeps, Receiver, Delivers, SameRcving, RcvCalls
  <2> QED
    BY <2>1, RcvUnaddressed
<1>4. CASE Awakes
  <2>1. /\ SameOwners /\ SameCalls /\ SameRcving({me}) /\ pc'[me] # "lwt_cgrp_wait"
        /\ joined \subseteq joined'
    BY <1>4 DEF Awakes, Delivers, SameRcving
  <2> QED
    BY <2>1, RcvUnaddressed
<1>5. ASSUME NEW c \in Chans, NEW size \in Nat, Opens(c, size)
      PROVE  WaitersUnaddressed'
  BY <1>5, OpensUnaddressed
<1>6. ASSUME NEW t \in Threads, NEW x \in Chans, NEW given \in Chans \cup {NULL},
             Spawns(t, x, given)
      PROVE  WaitersUnaddressed'
  BY <1>6, SpawnsUnaddressed
<1>7. ASSUME NEW c \in Chans, Drops(c)
      PROVE  WaitersUnaddressed'
  <2>1. \A d \in Chans, t \in Threads : chan'[d].receiver = t => chan[d].receiver = t
    BY <1>7, SchedAssumption DEF Drops, SameChannel
  <2>2. made' \subseteq made /\ UNCHANGED << pc, thd, joined >>
    BY <1>7 DEF Drops
  <2> QED
    BY <2>1, <2>2, UnaddressedFrame
<1>8. ASSUME NEW g \in Groups, NEW c \in Chans, Adds(g, c) \/ Removes(g, c)
      PROVE  WaitersUnaddressed'
  BY <1>8, UnaddressedFrame DEF Adds, Removes, Regroups, SameOwners, clientVars
<1>9. ASSUME NEW g \in Groups, NEW c \in Chans, Returns(g, c)
      PROVE  WaitersUnaddressed'
  BY <1>9, UnaddressedFrame DEF Returns, Waiting, SameCalls
<1>10. ASSUME NEW g \in Groups, Renews(g)
       PROVE  WaitersUnaddressed'
  BY <1>10, UnaddressedFrame DEF Renews, clientVars
<1>11. ASSUME NEW g \in Groups, Waits(g)
       PROVE  WaitersUnaddressed'
  BY <1>11, WaitsUnaddressed
<1> QED
  BY <1>1, <1>2, <1>3, <1>4, <1>5, <1>6, <1>7, <1>8, <1>9, <1>10, <1>11 DEF Step

-----------------------------------------------------------------------------
(* A thread and the parent that joins it meet.                              *)

\* t has sent its last word: it is dead, or will be when it runs next.
Departed(t) == sched.state[t] = "LWT_ZOMBIES" \/ (pc[t] = "lwt_die" /\ IsRunnable(sched, t))

Meets(t) ==
  /\ t \in joined => Departed(t) \/ (thd[t].chl # NULL /\ AsleepOn(thd[t].parent, thd[t].chl))
  /\ Departed(t) => t \in joined /\ \A p \in Threads : ~AsleepOn(p, thd[t].chl)
  /\ \A p \in Threads : AsleepOn(p, thd[t].chl) => t \in joined

LEMMA MeetsDef == JoinsMeet <=> \A t \in Threads : Meets(t)
  BY DEF JoinsMeet, Meets, Departed

LEMMA MeetsNext == JoinsMeet' <=> \A t \in Threads : Meets(t)'
  BY DEF JoinsMeet, Meets, Departed

\* Who sleeps in lwt_rcv, or has departed, among the other threads.
LEMMA OthersSleep ==
  ASSUME BaseInv, me \in Threads, SameCalls, SameRcving({me}), NEW W, OthersStand(W),
         \A u \in Threads \ {me} : u \in W => pc[u] \notin RcvCalls \cup {"client", "lwt_die"},
         NEW p \in Threads \ {me}
  PROVE  /\ \A c \in Chans : AsleepOn(p, c)' <=> AsleepOn(p, c)
         /\ Departed(p)' <=> Departed(p)
<1>1. pc'[p] = pc[p] /\ thd'[p].now_rcving = thd[p].now_rcving
  BY DEF SameCalls, SameRcving
<1>2. CASE p \in W
  <2>1. pc[p] \notin RcvCalls \cup {"client", "lwt_die"} /\ IsRunnable(sched', p)
    BY <1>2 DEF OthersStand
  <2>2. sched.state[p] # "LWT_ZOMBIES"
    BY <2>1 DEF BaseInv, IndInv, ThreadsInv, Gone
  <2> QED
    BY <1>1, <2>1, <2>2 DEF AsleepOn, InRcv, RcvCalls, Departed, IsRunnable
<1>3. CASE p \notin W
  BY <1>1, <1>3 DEF OthersStand, Stands, AsleepOn, InRcv, Departed, IsRunnable
<1> QED
  BY <1>2, <1>3

\* The current thread before the step, and after it if it can run.
LEMMA CurrentMeets ==
  ASSUME BaseInv, me \in Threads
  PROVE  /\ \A c \in Chans : ~AsleepOn(me, c)
         /\ Departed(me) <=> pc[me] = "lwt_die"
         /\ pc'[me] \notin RcvCalls \/ sched'.state[me] # "LWT_BLOCKED" =>
              \A p \in Threads, c \in Chans : p = me => ~(AsleepOn(p, c)')
<1>1. IsRunnable(sched, me) /\ sched.state[me] = "LWT_RUNNING"
  BY CurrentFacts
<1> QED
  BY <1>1, CurrentFacts DEF AsleepOn, InRcv, RcvCalls, Departed, IsRunnable

\* Nobody sleeps on what is no channel.
LEMMA SleepOnChannel ==
  ASSUME BaseInv, NEW p \in Threads
  PROVE  ~AsleepOn(p, NULL)
<1> SUFFICES ASSUME InRcv(p), thd[p].now_rcving = NULL
             PROVE  FALSE
  BY DEF AsleepOn
<1> QED
  BY SchedAssumption DEF BaseInv, ChansInv, ReceiversOwn

LEMMA ChlOf ==
  ASSUME BaseInv, NEW t \in Threads
  PROVE  /\ thd[t].chl \in Chans \cup {NULL} /\ thd[t].parent \in Threads \cup {NULL}
         /\ thd[t].chl # NULL =>
              /\ thd[t].chl \in Chans \ made
              /\ thd[t].parent \in Threads /\ chan[thd[t].chl].receiver = thd[t].parent
              /\ \A u \in Threads \ {t} : thd[u].chl # thd[t].chl
         /\ \A p \in Threads : AsleepOn(p, thd[t].chl) => thd[t].chl # NULL /\ p = thd[t].parent
<1>1. thd[t].chl \in Chans \cup {NULL} /\ thd[t].parent \in Threads \cup {NULL}
  BY DEF BaseInv, IndInv, TypeOK, ThreadFields
<1>2. thd[t].chl # NULL =>
        /\ thd[t].chl \in Chans \ made
        /\ thd[t].parent \in Threads /\ chan[thd[t].chl].receiver = thd[t].parent
        /\ \A u \in Threads \ {t} : thd[u].chl # thd[t].chl
  BY <1>1 DEF BaseInv, ChansInv, OwnChannels
<1>3. ASSUME NEW p \in Threads, AsleepOn(p, thd[t].chl)
      PROVE  thd[t].chl # NULL /\ p = thd[t].parent
  <2>1. thd[t].chl # NULL
    BY <1>3, SleepOnChannel
  <2>2. chan[thd[t].chl].receiver = p
    BY <1>1, <1>3, <2>1 DEF BaseInv, ChansInv, ReceiversAwake
  <2> QED
    BY <1>2, <2>1, <2>2
<1> QED
  BY <1>1, <1>2, <1>3

\* A thread stays as it is if nobody falls asleep on its channel or wakes up,
\* and it neither departs nor is joined.
LEMMA MeetFrame ==
  ASSUME BaseInv, BaseInv', NEW t \in Threads, Meets(t),
         thd'[t].chl = thd[t].chl, thd'[t].parent = thd[t].parent, t \in joined' <=> t \in joined,
         Departed(t)' <=> Departed(t),
         thd[t].chl # NULL => \A p \in Threads : AsleepOn(p, thd[t].chl)' <=> AsleepOn(p, thd[t].chl)
  PROVE  Meets(t)'
<1> DEFINE c == thd[t].chl
<1>1. CASE c = NULL
  <2>1. \A p \in Threads : ~AsleepOn(p, c) /\ ~(AsleepOn(p, NULL)')
    <3>1. BaseInv' => \A p \in Threads : ~(AsleepOn(p, NULL)')
      BY SchedAssumption DEF BaseInv, ChansInv, ReceiversOwn, AsleepOn
    <3> QED
      BY <1>1, <3>1, SleepOnChannel
  <2> QED
    BY <1>1, <2>1 DEF Meets, AsleepOn
<1>2. CASE c # NULL
  <2>1. thd[t].parent \in Threads
    BY <1>2, ChlOf
  <2>2. \A p \in Threads : AsleepOn(p, c)' <=> AsleepOn(p, c)
    BY <1>2
  <2> QED
    BY <1>2, <2>1, <2>2 DEF Meets
<1> QED
  BY <1>1, <1>2

\* Steps in which only threads that do not receive are resumed.
LEMMA QuietStepMeets ==
  ASSUME BaseInv, BaseInv', JoinsMeet, me \in Threads, SameOwners, SameCalls, SameRcving({me}),
         NEW W, OthersStand(W),
         \A u \in Threads \ {me} : u \in W => pc[u] \notin RcvCalls \cup {"client", "lwt_die"},
         \A p, t \in Threads : p = me => /\ Departed(p)' <=> Departed(p)
                                         /\ thd[t].chl # NULL => ~(AsleepOn(p, thd[t].chl)'),
         joined' = joined
  PROVE  JoinsMeet'
<1> SUFFICES ASSUME NEW t \in Threads
             PROVE  Meets(t)'
  BY MeetsNext
<1>1. Meets(t) /\ thd'[t].chl = thd[t].chl /\ thd'[t].parent = thd[t].parent
  BY MeetsDef DEF SameOwners
<1>2. Departed(t)' <=> Departed(t)
  BY OthersSleep
<1>3. ASSUME NEW p \in Threads, thd[t].chl # NULL
      PROVE  AsleepOn(p, thd[t].chl)' <=> AsleepOn(p, thd[t].chl)
  <2>1. thd[t].chl \in Chans
    BY <1>3, ChlOf
  <2>2. PICK c \in Chans : c = thd[t].chl /\ c = thd'[t].chl
    BY <1>1, <2>1
  <2>3. AsleepOn(p, c)' <=> AsleepOn(p, c)
    <3>1. CASE p = me
      BY <1>3, <2>2, <3>1, CurrentMeets
    <3>2. CASE p # me
      BY <3>2, OthersSleep
    <3> QED
      BY <3>1, <3>2
  <2> QED
    BY <2>2, <2>3
<1> QED
  BY <1>1, <1>2, <1>3, MeetFrame

\* The current thread departs only if it is inside lwt_die.
LEMMA ClientMeets ==
  ASSUME BaseInv, me \in Threads, pc[me] # "lwt_die",
         \/ pc'[me] # "lwt_die" /\ sched'.state[me] # "LWT_ZOMBIES"
         \/ sched'.state[me] = "LWT_BLOCKED"
  PROVE  \A p \in Threads : p = me => (Departed(p)' <=> Departed(p))
<1>1. ~Departed(me)
  BY CurrentMeets
<1>2. \A p \in Threads : p = me => ~(Departed(p)')
  BY DEF Departed, IsRunnable
<1> QED
  BY <1>1, <1>2

LEMMA PassesMeets ==
  ASSUME BaseInv, BaseInv', JoinsMeet, Passes
  PROVE  JoinsMeet'
<1>1. /\ me \in Threads /\ SameOwners /\ SameCalls /\ SameRcving({me}) /\ OthersStand({})
      /\ joined' = joined /\ pc'[me] = "client"
      /\ IF pc[me] = "lwt_die" THEN sched'.state[me] = "LWT_ZOMBIES" ELSE IsRunnable(sched', me)
  BY DEF Passes, SendFrame, SameRcving, Leaves
<1>2. \A p \in Threads, c \in Chans : p = me => ~(AsleepOn(p, c)')
  BY <1>1, CurrentMeets DEF RcvCalls
<1>3. \A p, t \in Threads : p = me /\ thd[t].chl # NULL => ~(AsleepOn(p, thd[t].chl)')
  <2>1. \A t \in Threads : thd[t].chl # NULL => thd'[t].chl \in Chans
    BY <1>1, ChlOf DEF SameOwners
  <2> QED
    BY <1>2, <2>1
<1>4. \A p \in Threads : p = me => (Departed(p)' <=> Departed(p))
  <2>1. CASE pc[me] = "lwt_die"
    <3>1. Departed(me)
      BY <1>1, <2>1, CurrentMeets
    <3>2. \A p \in Threads : p = me => Departed(p)'
      BY <1>1, <2>1 DEF Departed
    <3> QED
      BY <3>1, <3>2
  <2>2. CASE pc[me] # "lwt_die"
    <3>1. sched'.state[me] # "LWT_ZOMBIES"
      BY <1>1, <2>2 DEF IsRunnable
    <3> QED
      BY <1>1, <2>2, <3>1, ClientMeets
  <2> QED
    BY <2>1, <2>2
<1> QED
  BY <1>1, <1>3, <1>4, QuietStepMeets

\* lwt_snd finds the receiver of c blocked on c only if it sleeps in a function
\* that takes the message, never in lwt_cgrp_wait.
LEMMA HandOffAsleep ==
  ASSUME BaseInv, JoinsInv, NEW c, NEW v, NEW k, Sender(c, v, k),
         NEW r \in Threads, chan[c].receiver = r, ReceiverWaits(c)
  PROVE  AsleepOn(r, c)
<1>1. /\ sched.state[r] = "LWT_BLOCKED" /\ sched.block_for[r] = "BLOCKED_RECEIVING"
      /\ thd[r].now_rcving = c /\ me \in Threads /\ pc[me] = "client" /\ c \in Chans
      /\ IF k = "lwt_die" THEN c = thd[me].chl ELSE c \in made
  BY DEF ReceiverWaits, Sender
<1>2. InRcv(r) \/ pc[r] = "lwt_cgrp_wait"
  BY <1>1 DEF BaseInv, ChansInv, SleepersInside
<1>3. CASE pc[r] = "lwt_cgrp_wait"
  <2>1. ~Addressed(c)
    BY <1>1, <1>3 DEF JoinsInv, WaitersUnaddressed
  <2>2. c = thd[me].chl /\ me \in joined
    BY <1>1, <2>1 DEF Addressed
  <2>3. ~Departed(me)
    BY <1>1, CurrentMeets
  <2>4. AsleepOn(thd[me].parent, c) /\ c # NULL
    BY <1>1, <2>2, <2>3, MeetsDef DEF JoinsInv, Meets
  <2>5. thd[me].parent = r
    BY <1>1, <2>2, <2>4, ChlOf
  <2> QED
    BY <1>3, <2>4, <2>5 DEF AsleepOn, InRcv
<1> QED
  BY <1>1, <1>2, <1>3 DEF AsleepOn

\* The receiver woken sleeps on no channel any more, the rest sleep on.
LEMMA HandsOffMeets ==
  ASSUME BaseInv, BaseInv', JoinsInv, NEW c, NEW v, NEW k, HandsOff(c, v, k)
  PROVE  JoinsMeet'
<1> DEFINE r == chan[c].receiver
<1>1. /\ me \in Threads /\ SameOwners /\ SameCalls /\ SameRcving({me}) /\ OthersStand({r})
      /\ joined' = joined /\ pc'[me] = "client" /\ r \in Threads \ {me} /\ c \in Chans
      /\ pc[me] = "client" /\ Sender(c, v, k)
      /\ IF k = "lwt_die" THEN c = thd[me].chl ELSE c \in made
      /\ IF k = "lwt_die" THEN sched'.state[me] = "LWT_ZOMBIES" ELSE IsRunnable(sched', me)
  BY DEF HandsOff, Sender, SendFrame, SameRcving, Leaves
<1>2. AsleepOn(r, c)
  BY <1>1, HandOffAsleep DEF HandsOff
<1>3. \A p \in Threads, d \in Chans : p = me => ~(AsleepOn(p, d)')
  BY <1>1, CurrentMeets DEF RcvCalls
<1>4. \A p \in Threads, d \in Chans : p = r => ~(AsleepOn(p, d)')
  BY <1>1 DEF OthersStand, AsleepOn, IsRunnable
<1>5. ASSUME NEW p \in Threads, NEW d \in Chans, p # r
      PROVE  AsleepOn(p, d)' <=> AsleepOn(p, d)
  <2>1. CASE p = me
    BY <1>1, <1>3, <2>1, CurrentMeets
  <2>2. CASE p # me
    BY <1>1, <1>5, <2>2 DEF OthersStand, Stands, IsRunnable, AsleepOn, InRcv, SameCalls, SameRcving
  <2> QED
    BY <2>1, <2>2
<1>6. ASSUME NEW d \in Chans, AsleepOn(r, d)
      PROVE  d = c
  BY <1>2, <1>6 DEF AsleepOn
<1>7. \A p \in Threads \ {me} : Departed(p)' <=> Departed(p)
  <2>1. pc[r] # "lwt_die" /\ sched.state[r] # "LWT_ZOMBIES"
    BY <1>2 DEF AsleepOn, InRcv
  <2> QED
    BY <1>1, <2>1 DEF OthersStand, Stands, IsRunnable, Departed, SameCalls
<1> SUFFICES ASSUME NEW t \in Threads
             PROVE  Meets(t)'
  BY MeetsNext
<1>8. /\ Meets(t) /\ thd'[t].chl = thd[t].chl /\ thd'[t].parent = thd[t].parent
  BY <1>1, MeetsDef DEF JoinsInv, SameOwners
<1>9. CASE ~(t = me /\ k = "lwt_die")
  <2>1. Departed(t)' <=> Departed(t)
    <3>1. CASE t = me
      <4>1. sched'.state[me] # "LWT_ZOMBIES"
        BY <1>1, <1>9, <3>1 DEF IsRunnable
      <4> QED
        BY <1>1, <3>1, <4>1, ClientMeets
    <3>2. CASE t # me
      BY <1>7, <3>2
    <3> QED
      BY <3>1, <3>2
  <2>2. ASSUME NEW p \in Threads, thd[t].chl # NULL
        PROVE  AsleepOn(p, thd[t].chl)' <=> AsleepOn(p, thd[t].chl)
    <3>1. PICK d \in Chans : d = thd[t].chl /\ d = thd'[t].chl /\ d \notin made
      BY <1>8, <2>2, ChlOf
    <3>2. d # c
      BY <1>1, <1>9, <3>1, ChlOf, SchedAssumption
    <3>3. AsleepOn(p, d)' <=> AsleepOn(p, d)
      BY <1>4, <1>5, <1>6, <3>2
    <3> QED
      BY <3>1, <3>3
  <2> QED
    BY <1>1, <1>8, <2>1, <2>2, MeetFrame
<1>10. CASE t = me /\ k = "lwt_die"
  <2>1. t \in joined' /\ Departed(t)'
    BY <1>1, <1>2, <1>8, <1>10 DEF Meets, Departed
  <2>2. \A p \in Threads : ~(AsleepOn(p, c)')
    <3>1. \A p \in Threads : AsleepOn(p, c) => p = r
      BY <1>1 DEF BaseInv, ChansInv, ReceiversAwake
    <3> QED
      BY <1>1, <1>4, <1>5, <3>1
  <2>3. c = thd'[t].chl
    BY <1>1, <1>8, <1>10
  <2> QED
    BY <2>1, <2>2, <2>3 DEF Meets
<1> QED
  BY <1>9, <1>10

LEMMA SendsMeet ==
  ASSUME BaseInv, BaseInv', JoinsMeet, NEW c, NEW v, NEW k, Buffers(c, v, k) \/ Blocks(c, v, k)
  PROVE  JoinsMeet'
<1>1. /\ me \in Threads /\ SameOwners /\ SameCalls /\ SameRcving({me}) /\ OthersStand(Woken(c))
      /\ joined' = joined /\ c \in Chans /\ pc[me] = "client" /\ pc'[me] \notin RcvCalls
  BY DEF Buffers, Blocks, Sender, SendFrame, SameRcving, Leaves, RcvCalls, SndCalls
<1>2. \A u \in Threads : u \in Woken(c) => pc[u] \notin RcvCalls \cup {"client", "lwt_die"}
  BY <1>1, WokenWaits DEF RcvCalls
<1>3. \A p, t \in Threads : p = me /\ thd[t].chl # NULL => ~(AsleepOn(p, thd[t].chl)')
  <2>1. \A t \in Threads : thd[t].chl # NULL => thd'[t].chl \in Chans
    BY <1>1, ChlOf DEF SameOwners
  <2>2. \A p \in Threads, d \in Chans : p = me => ~(AsleepOn(p, d)')
    BY <1>1, CurrentMeets
  <2> QED
    BY <2>1, <2>2
<1>4. \A p \in Threads : p = me => (Departed(p)' <=> Departed(p))
  <2>1. CASE Blocks(c, v, k)
    <3>1. sched'.state[me] = "LWT_BLOCKED"
      BY <2>1 DEF Blocks
    <3> QED
      BY <1>1, <3>1, ClientMeets
  <2>2. CASE Buffers(c, v, k)
    <3>1. k # "lwt_die"
      <4> SUFFICES ASSUME k = "lwt_die"
                   PROVE  FALSE
        OBVIOUS
      <4>1. c = thd[me].chl /\ ~BufferFull(c)
        BY <2>2 DEF Buffers, Sender
      <4>2. chan[c].size = 0
        BY <1>1, <4>1, SchedAssumption DEF BaseInv, ChansInv, OwnChannels
      <4>3. chan[c].buffer \in Seq(Values \cup {NULL}) /\ Len(chan[c].buffer) <= chan[c].size
        BY <1>1, ChannelOf DEF BaseInv, IndInv, ChansInv, EventsShown
      <4> QED
        BY <4>1, <4>2, <4>3 DEF BufferFull
    <3>2. pc'[me] = "client" /\ sched'.state[me] # "LWT_ZOMBIES"
      BY <2>2, <3>1 DEF Buffers, Leaves, IsRunnable
    <3> QED
      BY <1>1, <3>2, ClientMeets
  <2> QED
    BY <2>1, <2>2
<1> QED
  BY <1>1, <1>2, <1>3, <1>4, QuietStepMeets

LEMMA AwakesMeets ==
  ASSUME BaseInv, BaseInv', JoinsMeet, Awakes
  PROVE  JoinsMeet'
<1>1. /\ me \in Threads /\ SameOwners /\ SameCalls /\ SameRcving({me}) /\ OthersStand({})
      /\ joined' = joined /\ pc[me] # "lwt_die" /\ pc'[me] \notin RcvCalls
      /\ pc'[me] # "lwt_die" /\ sched'.state[me] # "LWT_ZOMBIES"
  BY DEF Awakes, Delivers, SameRcving, InRcv, RcvCalls, IsRunnable
<1>3. \A p, t \in Threads : p = me /\ thd[t].chl # NULL => ~(AsleepOn(p, thd[t].chl)')
  <2>1. \A t \in Threads : thd[t].chl # NULL => thd'[t].chl \in Chans
    BY <1>1, ChlOf DEF SameOwners
  <2>2. \A p \in Threads, d \in Chans : p = me => ~(AsleepOn(p, d)')
    BY <1>1, CurrentMeets
  <2> QED
    BY <2>1, <2>2
<1> QED
  BY <1>1, <1>3, ClientMeets, QuietStepMeets

\* Who is blocked on a thread's own channel is that thread, in its last word;
\* on the others nobody is.
LEMMA LastSender ==
  ASSUME BaseInv, RefsCounted, NEW c \in Chans, NEW t \in Threads, OnList(sched.queue, c, t)
  PROVE  /\ pc[t] \in SndCalls
         /\ c \notin made => pc[t] = "lwt_die" /\ c = thd[t].chl
         /\ c \in made => pc[t] # "lwt_die"
<1>1. Sending(t) /\ IF pc[t] = "lwt_die" THEN c = thd[t].chl ELSE refs[c][t] > 0
  BY DEF BaseInv, ChansInv, SendersHold
<1>2. c = thd[t].chl => c \notin made
  BY ChlOf, SchedAssumption
<1>3. c \notin made => refs[c][t] = 0
  BY DEF RefsCounted
<1> QED
  BY <1>1, <1>2, <1>3 DEF Sending, SndCalls

LEMMA TakesMeets ==
  ASSUME BaseInv, BaseInv', JoinsMeet, RefsCounted, NEW c, NEW v, NEW k \in RcvCalls, NEW x,
         Takes(c, v, k, x), k # "lwt_join"
  PROVE  JoinsMeet'
<1> DEFINE q == sched.queue[c]
<1>1. /\ me \in Threads /\ SameOwners /\ SameCalls /\ SameRcving({me}) /\ Unblocks(c)
      /\ joined' = joined /\ c \in made /\ c \in Chans /\ pc[me] = "client"
      /\ pc'[me] \notin RcvCalls /\ pc'[me] # "lwt_die" /\ sched'.state[me] # "LWT_ZOMBIES"
  BY DEF Takes, Receiver, Delivers, SameRcving, RcvCalls, IsRunnable
<1>2. PICK W : OthersStand(W) /\ \A u \in W : q # << >> /\ u = Head(q)
  BY <1>1 DEF Unblocks
<1>3. \A u \in Threads \ {me} : u \in W => pc[u] \notin RcvCalls \cup {"client", "lwt_die"}
  <2> SUFFICES ASSUME NEW u \in Threads, u \in W
               PROVE  pc[u] \notin RcvCalls \cup {"client", "lwt_die"}
    OBVIOUS
  <2>1. q \in Seq(Threads) /\ q # << >> /\ u = q[1] /\ 1 \in 1 .. Len(q)
    <3>1. c \in Heads /\ sched.queue \in [Heads -> Seq(Threads)]
      BY <1>1 DEF BaseInv, IndInv, TypeOK, Sched, Heads
    <3> QED
      BY <1>2, <3>1
  <2>2. OnList(sched.queue, c, u)
    BY <2>1 DEF OnList, In
  <2> QED
    BY <1>1, <2>2, LastSender DEF RcvCalls, SndCalls
<1>4. \A p, t \in Threads : p = me /\ thd[t].chl # NULL => ~(AsleepOn(p, thd[t].chl)')
  <2>1. \A t \in Threads : thd[t].chl # NULL => thd'[t].chl \in Chans
    BY <1>1, ChlOf DEF SameOwners
  <2>2. \A p \in Threads, d \in Chans : p = me => ~(AsleepOn(p, d)')
    BY <1>1, CurrentMeets
  <2> QED
    BY <2>1, <2>2
<1> QED
  BY <1>1, <1>2, <1>3, <1>4, ClientMeets, QuietStepMeets

\* The parent finds the thread blocked in lwt_die and takes its last word.
LEMMA JoinTakesMeets ==
  ASSUME BaseInv, BaseInv', JoinsMeet, RefsCounted, NEW c, NEW v, NEW x,
         Takes(c, v, "lwt_join", x)
  PROVE  JoinsMeet'
<1> DEFINE q == sched.queue[c]
<1>1. /\ me \in Threads /\ SameOwners /\ SameCalls /\ SameRcving({me}) /\ Unblocks(c)
      /\ x \in Threads \ {me} /\ joined' = joined \cup {x} /\ c = thd[x].chl /\ c \in Chans
      /\ chan[c].receiver = me /\ pc[me] = "client" /\ (FromBuffer(c, v) \/ FromSender(c, v))
      /\ pc'[me] \notin RcvCalls /\ pc'[me] # "lwt_die" /\ sched'.state[me] # "LWT_ZOMBIES"
      /\ x \notin joined
  BY DEF Takes, Receiver, Delivers, SameRcving, RcvCalls, IsRunnable
<1>2. c \notin made /\ c # NULL
  BY <1>1, ChlOf, SchedAssumption
<1>3. q # << >>
  <2>1. chan[c].size = 0 /\ chan[c].buffer \in Seq(Values \cup {NULL})
        /\ Len(chan[c].buffer) <= chan[c].size
    BY <1>1, <1>2, ChannelOf DEF BaseInv, IndInv, ChansInv, OwnChannels, EventsShown
  <2>2. chan[c].buffer = << >>
    BY <2>1
  <2> QED
    BY <1>1, <2>2 DEF FromBuffer, FromSender
<1>4. pc[x] = "lwt_die" /\ OthersStand({x})
  <2>1. q \in Seq(Threads)
    <3>1. c \in Heads /\ sched.queue \in [Heads -> Seq(Threads)]
      BY <1>1 DEF BaseInv, IndInv, TypeOK, Sched, Heads
    <3> QED
      BY <3>1
  <2>2. PICK s \in Threads : s = Head(q) /\ s = q[1] /\ 1 \in 1 .. Len(q)
    BY <1>3, <2>1
  <2>3. OnList(sched.queue, c, s)
    BY <2>2 DEF OnList, In
  <2>4. pc[s] = "lwt_die" /\ thd[s].chl = c
    BY <1>1, <1>2, <2>3, LastSender
  <2>5. s = x
    BY <1>1, <1>2, <2>4, ChlOf
  <2> QED
    BY <1>1, <1>3, <2>2, <2>4, <2>5 DEF Unblocks
<1>5. \A p \in Threads, d \in Chans : p = me => ~(AsleepOn(p, d)') /\ ~AsleepOn(p, d)
  BY <1>1, CurrentMeets
<1>6. \A p \in Threads \ {me}, d \in Chans : AsleepOn(p, d)' <=> AsleepOn(p, d)
  BY <1>1, <1>4 DEF OthersStand, Stands, IsRunnable, AsleepOn, InRcv, SameCalls, SameRcving
<1> SUFFICES ASSUME NEW t \in Threads
             PROVE  Meets(t)'
  BY MeetsNext
<1>7. Meets(t) /\ thd'[t].chl = thd[t].chl /\ thd'[t].parent = thd[t].parent
  BY <1>1, MeetsDef DEF SameOwners
<1>8. CASE t = x
  <2>1. t \in joined' /\ Departed(t)'
    <3>1. pc'[x] = "lwt_die" /\ IsRunnable(sched', x)
      BY <1>1, <1>4 DEF OthersStand, SameCalls
    <3>2. x \in joined'
      BY <1>1
    <3> QED
      BY <1>8, <3>1, <3>2 DEF Departed
  <2>2. \A p \in Threads : ~(AsleepOn(p, c)')
    <3>1. \A p \in Threads : AsleepOn(p, c) => p = me
      BY <1>1 DEF BaseInv, ChansInv, ReceiversAwake
    <3> QED
      BY <1>1, <1>5, <1>6, <3>1
  <2>3. c = thd'[t].chl
    BY <1>1, <1>7, <1>8
  <2> QED
    BY <2>1, <2>2, <2>3 DEF Meets
<1>9. CASE t # x
  <2>1. Departed(t)' <=> Departed(t)
    <3>1. CASE t = me
      <4>1. \A p \in Threads : p = me => (Departed(p)' <=> Departed(p))
        BY <1>1, ClientMeets
      <4> QED
        BY <3>1, <4>1
    <3>2. CASE t # me
      BY <1>1, <1>4, <1>9, <3>2 DEF OthersStand, Stands, IsRunnable, Departed, SameCalls
    <3> QED
      BY <3>1, <3>2
  <2>2. ASSUME NEW p \in Threads, thd[t].chl # NULL
        PROVE  AsleepOn(p, thd[t].chl)' <=> AsleepOn(p, thd[t].chl)
    <3>1. PICK d \in Chans : d = thd[t].chl /\ d = thd'[t].chl
      BY <1>7, <2>2, ChlOf
    <3>2. AsleepOn(p, d)' <=> AsleepOn(p, d)
      BY <1>5, <1>6
    <3> QED
      BY <3>1, <3>2
  <2> QED
    BY <1>1, <1>7, <1>9, <2>1, <2>2, MeetFrame
<1> QED
  BY <1>8, <1>9

\* The parent sleeps on the channel of the thread it joins.
LEMMA SleepsMeets ==
  ASSUME BaseInv, BaseInv', JoinsMeet, NEW c, NEW k \in RcvCalls, NEW x, Sleeps(c, k, x)
  PROVE  JoinsMeet'
<1>1. /\ me \in Threads /\ SameOwners /\ SameCalls /\ SameRcving({me}) /\ OthersStand({})
      /\ c \in Chans /\ chan[c].receiver = me /\ pc[me] = "client" /\ thd'[me].now_rcving = c
      /\ sched'.state[me] = "LWT_BLOCKED" /\ pc'[me] = k
      /\ IF k = "lwt_join" THEN /\ x \in Threads \ {me} /\ c = thd[x].chl /\ x \notin joined
                                /\ joined' = joined \cup {x}
                           ELSE c \in made /\ joined' = joined
  BY DEF Sleeps, Receiver
<1>2. \A p \in Threads, d \in Chans : p = me => ~AsleepOn(p, d) /\ (AsleepOn(p, d)' <=> d = c)
  BY <1>1, CurrentMeets DEF AsleepOn, InRcv, RcvCalls
<1>3. \A p \in Threads \ {me}, d \in Chans : AsleepOn(p, d)' <=> AsleepOn(p, d)
  BY <1>1, OthersSleep
<1> SUFFICES ASSUME NEW t \in Threads
             PROVE  Meets(t)'
  BY MeetsNext
<1>4. Meets(t) /\ thd'[t].chl = thd[t].chl /\ thd'[t].parent = thd[t].parent
  BY <1>1, MeetsDef DEF SameOwners
<1>5. Departed(t)' <=> Departed(t)
  <2>1. CASE t = me
    BY <1>1, <2>1, ClientMeets
  <2>2. CASE t # me
    BY <1>1, <2>2, OthersSleep
  <2> QED
    BY <2>1, <2>2
<1>6. CASE k = "lwt_join" /\ t = x
  <2>1. t \in joined' /\ ~(Departed(t)')
    BY <1>1, <1>4, <1>5, <1>6 DEF Meets
  <2>2. thd[t].parent = me /\ c # NULL /\ c = thd'[t].chl
    BY <1>1, <1>4, <1>6, ChlOf, SchedAssumption
  <2>3. \A p \in Threads : p = me => AsleepOn(p, c)'
    BY <1>1, <1>2
  <2> QED
    BY <1>1, <1>4, <2>1, <2>2, <2>3 DEF Meets
<1>7. CASE ~(k = "lwt_join" /\ t = x)
  <2>1. ASSUME NEW p \in Threads, thd[t].chl # NULL
        PROVE  AsleepOn(p, thd[t].chl)' <=> AsleepOn(p, thd[t].chl)
    <3>1. PICK d \in Chans : d = thd[t].chl /\ d = thd'[t].chl /\ d \notin made
      BY <1>4, <2>1, ChlOf
    <3>2. d # c
      <4>1. CASE k = "lwt_join"
        <5>1. x \in Threads \ {t} /\ c = thd[x].chl
          BY <1>1, <1>7, <4>1
        <5> QED
          BY <2>1, <3>1, <5>1, ChlOf
      <4>2. CASE k # "lwt_join"
        BY <1>1, <3>1, <4>2
      <4> QED
        BY <4>1, <4>2
    <3>3. AsleepOn(p, d)' <=> AsleepOn(p, d)
      BY <1>2, <1>3, <3>2
    <3> QED
      BY <3>1, <3>3
  <2>2. t \in joined' <=> t \in joined
    BY <1>1, <1>7
  <2> QED
    BY <1>4, <1>5, <2>1, <2>2, MeetFrame
<1> QED
  BY <1>6, <1>7

\* Steps in which nobody falls asleep on a channel, wakes up on one or departs.
LEMMA StillMeets ==
  ASSUME BaseInv, BaseInv', JoinsMeet, thd' = thd, joined' = joined,
         \A t \in Threads : Departed(t)' <=> Departed(t),
         \A p \in Threads, c \in Chans : AsleepOn(p, c)' <=> AsleepOn(p, c)
  PROVE  JoinsMeet'
<1> SUFFICES ASSUME NEW t \in Threads
             PROVE  Meets(t)'
  BY MeetsNext
<1>1. Meets(t) /\ (Departed(t)' <=> Departed(t))
  BY MeetsDef
<1>2. ASSUME NEW p \in Threads, thd[t].chl # NULL
      PROVE  AsleepOn(p, thd[t].chl)' <=> AsleepOn(p, thd[t].chl)
  <2>1. PICK d \in Chans : d = thd[t].chl /\ d = thd'[t].chl
    BY <1>2, ChlOf
  <2> QED
    BY <2>1
<1> QED
  BY <1>1, <1>2, MeetFrame

LEMMA ChanStepMeets ==
  ASSUME BaseInv, BaseInv', JoinsMeet, UNCHANGED << thd, pc, joined >>,
         \A u \in Threads : sched'.state[u] = sched.state[u]
  PROVE  JoinsMeet'
BY StillMeets DEF Departed, AsleepOn, InRcv, IsRunnable

LEMMA WaitingMeets ==
  ASSUME BaseInv, BaseInv', JoinsMeet, NEW g, (\E c : Returns(g, c)) \/ Waits(g)
  PROVE  JoinsMeet'
<1>1. /\ me \in Threads /\ SameCalls /\ UNCHANGED << thd, joined >> /\ OthersStand({})
      /\ pc[me] \in {"client", "lwt_cgrp_wait"} /\ pc'[me] \in {"client", "lwt_cgrp_wait"}
      /\ sched'.state[me] # "LWT_ZOMBIES"
  <2>1. sched.state[me] # "LWT_ZOMBIES"
    BY CurrentFacts DEF Returns, Waits, Waiting
  <2> QED
    BY <2>1 DEF Returns, Waits, Waiting, OthersStand, Stands, IsRunnable
<1>2. \A t \in Threads \ {me} : Departed(t)' <=> Departed(t)
  BY <1>1 DEF OthersStand, Stands, IsRunnable, Departed, SameCalls
<1>3. \A p \in Threads \ {me}, c \in Chans : AsleepOn(p, c)' <=> AsleepOn(p, c)
  BY <1>1 DEF OthersStand, Stands, IsRunnable, AsleepOn, InRcv, SameCalls
<1>4. \A t \in Threads : t = me => (Departed(t)' <=> Departed(t))
  BY <1>1, ClientMeets
<1>5. \A p \in Threads, c \in Chans : p = me => ~AsleepOn(p, c) /\ ~(AsleepOn(p, c)')
  BY <1>1, CurrentMeets DEF RcvCalls
<1> QED
  BY <1>1, <1>2, <1>3, <1>4, <1>5, StillMeets

\* A new thread has not been joined, and nobody sleeps on its channel.
LEMMA SpawnsMeets ==
  ASSUME BaseInv, BaseInv', JoinsMeet, NEW u, NEW x, NEW given, Spawns(u, x, given)
  PROVE  JoinsMeet'
<1>1. /\ u \in Threads /\ pc[u] = "client" /\ x \in Chans /\ ~chan[x].live
      /\ \A w \in Threads : /\ sched'.state[w] = (IF w = u THEN "LWT_RUNNING" ELSE sched.state[w])
                            /\ pc'[w] = (IF w = u THEN "client" ELSE pc[w])
                            /\ thd'[w].now_rcving = thd[w].now_rcving
      /\ thd'[u].chl = x /\ joined' = joined \ {u} /\ \A w \in Threads \ {u} : thd'[w] = thd[w]
  BY DEF Spawns, Inits
<1>2. \A p \in Threads, c \in Chans : AsleepOn(p, c)' <=> AsleepOn(p, c)
  BY <1>1 DEF AsleepOn, InRcv
<1> SUFFICES ASSUME NEW t \in Threads
             PROVE  Meets(t)'
  BY MeetsNext
<1>3. CASE t = u
  <2>1. t \notin joined' /\ ~(Departed(t)')
    BY <1>1, <1>3 DEF Departed
  <2>2. \A p \in Threads : ~(AsleepOn(p, x)')
    BY <1>1, <1>2, FreeFacts
  <2>3. x = thd'[t].chl
    BY <1>1, <1>3
  <2> QED
    BY <2>1, <2>2, <2>3 DEF Meets
<1>4. CASE t # u
  <2>1. /\ Meets(t) /\ thd'[t] = thd[t] /\ (t \in joined' <=> t \in joined)
        /\ (Departed(t)' <=> Departed(t))
    BY <1>1, <1>4, MeetsDef DEF Departed, IsRunnable
  <2>2. ASSUME NEW p \in Threads, thd[t].chl # NULL
        PROVE  AsleepOn(p, thd[t].chl)' <=> AsleepOn(p, thd[t].chl)
    <3>1. PICK d \in Chans : d = thd[t].chl /\ d = thd'[t].chl
      BY <2>1, <2>2, ChlOf
    <3> QED
      BY <1>2, <3>1
  <2> QED
    BY <2>1, <2>2, MeetFrame
<1> QED
  BY <1>3, <1>4

LEMMA StepMeets ==
  ASSUME BaseInv, BaseInv', RefsInv, JoinsInv, Step
  PROVE  JoinsMeet'
<1>0. JoinsMeet /\ RefsCounted
  BY DEF JoinsInv, RefsInv
<1>1. CASE Passes
  BY <1>0, <1>1, PassesMeets
<1>2. ASSUME NEW c \in Chans, NEW v \in Values, NEW k \in SndCalls,
             HandsOff(c, v, k) \/ Buffers(c, v, k) \/ Blocks(c, v, k)
      PROVE  JoinsMeet'
  BY <1>0, <1>2, HandsOffMeets, SendsMeet
<1>3. ASSUME NEW c \in Chans, NEW k \in RcvCalls, NEW x \in Threads \cup {NULL},
             NEW v \in Values \cup {NULL}, Takes(c, v, k, x)
      PROVE  JoinsMeet'
  <2>1. CASE k = "lwt_join"
    <3>1. Takes(c, v, "lwt_join", x)
      BY <1>3, <2>1
    <3> QED
      BY <1>0, <3>1, JoinTakesMeets
  <2>2. CASE k # "lwt_join"
    BY <1>0, <1>3, <2>2, TakesMeets
  <2> QED
    BY <2>1, <2>2
<1>4. ASSUME NEW c \in Chans, NEW k \in RcvCalls, NEW x \in Threads \cup {NULL}, Sleeps(c, k, x)
      PROVE  JoinsMeet'
  BY <1>0, <1>4, SleepsMeets
<1>5. CASE Awakes
  BY <1>0, <1>5, AwakesMeets
<1>6. ASSUME NEW c \in Chans, NEW size \in Nat, Opens(c, size)
      PROVE  JoinsMeet'
  <2>1. UNCHANGED << thd, pc, joined >> /\ \A u \in Threads : sched'.state[u] = sched.state[u]
    BY <1>6 DEF Opens
  <2> QED
    BY <1>0, <2>1, ChanStepMeets
<1>7. ASSUME NEW t \in Threads, NEW x \in Chans, NEW given \in Chans \cup {NULL},
             Spawns(t, x, given)
      PROVE  JoinsMeet'
  BY <1>0, <1>7, SpawnsMeets
<1>8. ASSUME NEW c \in Chans, Drops(c)
      PROVE  JoinsMeet'
  <2>1. UNCHANGED << thd, pc, joined, sched >>
    BY <1>8 DEF Drops
  <2> QED
    BY <1>0, <2>1, ChanStepMeets
<1>9. ASSUME NEW g \in Groups, NEW c \in Chans, Adds(g, c) \/ Removes(g, c)
      PROVE  JoinsMeet'
  <2>1. UNCHANGED << thd, pc, joined, sched >>
    BY <1>9 DEF Adds, Removes, Regroups, clientVars
  <2> QED
    BY <1>0, <2>1, ChanStepMeets
<1>10. ASSUME NEW g \in Groups, (\E c \in Chans : Returns(g, c)) \/ Waits(g)
       PROVE  JoinsMeet'
  BY <1>0, <1>10, WaitingMeets
<1>11. ASSUME NEW g \in Groups, Renews(g)
       PROVE  JoinsMeet'
  <2>1. UNCHANGED << thd, pc, joined, sched >>
    BY <1>11 DEF Renews, clientVars
  <2> QED
    BY <1>0, <2>1, ChanStepMeets
<1> QED
  BY <1>1, <1>2, <1>3, <1>4, <1>5, <1>6, <1>7, <1>8, <1>9, <1>10, <1>11 DEF Step

LEMMA InitJoins == Init => JoinsInv
<1> SUFFICES ASSUME Init
             PROVE  JoinsInv
  OBVIOUS
<1>1. /\ joined = {} /\ \A t \in Threads : pc[t] = "client" /\ sched.state[t] # "LWT_ZOMBIES"
  BY DEF Init, SchedInit
<1> QED
  BY <1>1 DEF JoinsInv, WaitersUnaddressed, JoinsMeet, AsleepOn, InRcv

LEMMA NextJoins ==
  ASSUME "deref_in_flight" \notin Careless, "wait_after_rcv" \notin Careless,
         BaseInv /\ RefsInv /\ JoinsInv, [Next]_vars
  PROVE  (BaseInv /\ RefsInv /\ JoinsInv)'
<1>1. BaseInv' /\ RefsInv'
  BY NextRefsInv
<1>2. CASE Next
  BY <1>1, <1>2, NextShape, StepUnaddressed, StepMeets DEF JoinsInv
<1>3. CASE UNCHANGED vars
  <2>1. UNCHANGED << sched, thd, chan, pc, made, joined >>
    BY <1>3 DEF vars
  <2>2. JoinsMeet'
    BY <1>1, <2>1, ChanStepMeets DEF JoinsInv
  <2>3. WaitersUnaddressed'
    BY <2>1, UnaddressedFrame DEF JoinsInv
  <2> QED
    BY <1>1, <2>2, <2>3 DEF JoinsInv
<1> QED
  BY <1>1, <1>2, <1>3

LEMMA JoinsInvHolds ==
  ASSUME "deref_in_flight" \notin Careless, "wait_after_rcv" \notin Careless
  PROVE  Spec => [](BaseInv /\ RefsInv /\ JoinsInv)
<1>1. Init => BaseInv /\ RefsInv /\ JoinsInv
  BY InitBaseInv, InitRefsInv, InitJoins
<1>2. (BaseInv /\ RefsInv /\ JoinsInv) /\ [Next]_vars => (BaseInv /\ RefsInv /\ JoinsInv)'
  BY NextJoins
<1> QED
  BY <1>1, <1>2, PTL DEF Spec

\* A thread dies, and its block becomes the next thread's, only after its
\* parent has joined it and been given its last word: lwt_die blocks in lwt_snd
\* until lwt_join receives.
THEOREM NobodyDiesUnjoined ==
  ASSUME "deref_in_flight" \notin Careless, "wait_after_rcv" \notin Careless
  PROVE  Spec => []LastWordFirst
<1>1. BaseInv /\ RefsInv /\ JoinsInv => LastWordFirst
  BY DEF JoinsInv, JoinsMeet, LastWordFirst
<1> QED
  BY <1>1, JoinsInvHolds, PTL

-----------------------------------------------------------------------------
(* The channels are first-in first-out queues.                              *)

\* Sequences of messages put end to end.
LEMMA TakeFirst ==
  ASSUME NEW S, NEW b \in Seq(S), NEW q \in Seq(S), b # << >>
  PROVE  b \o q # << >> /\ Head(b \o q) = Head(b) /\ Tail(b \o q) = Tail(b) \o q
<1>1. /\ b \o q \in Seq(S) /\ Len(b \o q) = Len(b) + Len(q)
      /\ \A i \in 1 .. Len(b) + Len(q) : (b \o q)[i] = IF i <= Len(b) THEN b[i] ELSE q[i - Len(b)]
  BY ConcatProperties
<1>2. Len(b) \in Nat \ {0} /\ Len(q) \in Nat
  BY EmptySeq, LenProperties
<1>3. b \o q # << >> /\ Head(b \o q) = Head(b)
  BY <1>1, <1>2
<1>4. /\ Tail(b) \in Seq(S) /\ Len(Tail(b)) = Len(b) - 1
      /\ \A i \in 1 .. Len(Tail(b)) : Tail(b)[i] = b[i + 1]
  BY HeadTailProperties
<1>5. /\ Tail(b \o q) \in Seq(S) /\ Len(Tail(b \o q)) = Len(b \o q) - 1
      /\ \A i \in 1 .. Len(Tail(b \o q)) : Tail(b \o q)[i] = (b \o q)[i + 1]
  BY <1>1, <1>3, HeadTailProperties
<1>6. /\ Tail(b) \o q \in Seq(S) /\ Len(Tail(b) \o q) = Len(b) - 1 + Len(q)
      /\ \A i \in 1 .. Len(b) - 1 + Len(q) : (Tail(b) \o q)[i] =
            IF i <= Len(b) - 1 THEN Tail(b)[i] ELSE q[i - (Len(b) - 1)]
  BY <1>4, ConcatProperties
<1>7. Len(Tail(b \o q)) = Len(Tail(b) \o q)
  BY <1>1, <1>2, <1>5, <1>6
<1>8. ASSUME NEW i \in 1 .. Len(Tail(b \o q))
      PROVE  Tail(b \o q)[i] = (Tail(b) \o q)[i]
  <2>1. i \in 1 .. Len(b) - 1 + Len(q) /\ i + 1 \in 1 .. Len(b) + Len(q)
    BY <1>2, <1>6, <1>7, <1>8
  <2>2. Tail(b \o q)[i] = IF i + 1 <= Len(b) THEN b[i + 1] ELSE q[i + 1 - Len(b)]
    BY <1>1, <1>5, <1>8, <2>1
  <2>3. (Tail(b) \o q)[i] = IF i <= Len(b) - 1 THEN b[i + 1] ELSE q[i - (Len(b) - 1)]
    BY <1>2, <1>4, <1>6, <2>1
  <2> QED
    BY <1>2, <2>1, <2>2, <2>3
<1> QED
  BY <1>3, <1>5, <1>6, <1>7, <1>8, SeqEqual

LEMMA AppendLast ==
  ASSUME NEW S, NEW b \in Seq(S), NEW q \in Seq(S), NEW v \in S
  PROVE  b \o Append(q, v) = Append(b \o q, v)
<1>1. /\ b \o q \in Seq(S) /\ Append(q, v) = q \o << v >> /\ << v >> \in Seq(S)
      /\ Append(b \o q, v) = (b \o q) \o << v >>
  BY ConcatProperties
<1> QED
  BY <1>1, ConcatAssociative

LEMMA MoveFirst ==
  ASSUME NEW S, NEW b \in Seq(S), NEW q \in Seq(S), q # << >>
  PROVE  Append(b, Head(q)) \o Tail(q) = b \o q
<1>1. Head(q) \in S /\ Tail(q) \in Seq(S) /\ << Head(q) >> \in Seq(S)
  BY HeadTailProperties
<1>2. q = << Head(q) >> \o Tail(q)
  <2> DEFINE p == << Head(q) >> \o Tail(q)
  <2>1. Len(q) \in Nat \ {0} /\ Len(Tail(q)) = Len(q) - 1 /\ \A i \in 1 .. Len(Tail(q)) : Tail(q)[i] = q[i + 1]
    BY EmptySeq, HeadTailProperties
  <2>2. /\ p \in Seq(S) /\ Len(p) = Len(q)
        /\ \A i \in 1 .. Len(q) : p[i] = IF i <= 1 THEN Head(q) ELSE Tail(q)[i - 1]
    BY <1>1, <2>1, ConcatProperties
  <2>3. ASSUME NEW i \in 1 .. Len(q)
        PROVE  q[i] = p[i]
    <3>1. CASE i = 1
      BY <2>1, <2>2, <3>1
    <3>2. CASE i # 1
      <4>1. i - 1 \in 1 .. Len(Tail(q)) /\ ~(i <= 1)
        BY <2>1, <3>2
      <4> HIDE DEF p
      <4> QED
        BY <2>1, <2>2, <4>1
    <3> QED
      BY <3>1, <3>2
  <2> HIDE DEF p
  <2>4. q = p
    BY <2>2, <2>3, SeqEqual
  <2> QED
    BY <2>4 DEF p
<1>3. Append(b, Head(q)) = b \o << Head(q) >>
  BY <1>1
<1>4. (b \o << Head(q) >>) \o Tail(q) = b \o (<< Head(q) >> \o Tail(q))
  BY <1>1, ConcatAssociative
<1> QED
  BY <1>2, <1>3, <1>4

LEMMA AppendElements ==
  ASSUME NEW S, NEW q \in Seq(S), NEW v \in S
  PROVE  Append(q, v) = [i \in 1 .. Len(q) + 1 |-> IF i <= Len(q) THEN q[i] ELSE v]
<1> DEFINE p == [i \in 1 .. Len(q) + 1 |-> IF i <= Len(q) THEN q[i] ELSE v]
<1>1. Len(q) \in Nat /\ \A i \in 1 .. Len(q) : q[i] \in S
  BY LenProperties, ElementOfSeq
<1>2. \A i \in 1 .. Len(q) + 1 : (IF i <= Len(q) THEN q[i] ELSE v) \in S
  BY <1>1
<1>3. p \in Seq(S) /\ Len(p) = Len(q) + 1
  BY <1>1, <1>2
<1>4. \A i \in 1 .. Len(q) + 1 : p[i] = IF i <= Len(q) THEN q[i] ELSE v
  OBVIOUS
<1>5. /\ Append(q, v) \in Seq(S) /\ Len(Append(q, v)) = Len(q) + 1
      /\ \A i \in 1 .. Len(q) + 1 : Append(q, v)[i] = IF i <= Len(q) THEN q[i] ELSE v
  BY <1>1
<1> HIDE DEF p
<1>6. Append(q, v) = p
  BY <1>3, <1>4, <1>5, SeqEqual
<1> QED
  BY <1>6 DEF p

LEMMA TailElements ==
  ASSUME NEW S, NEW q \in Seq(S), q # << >>
  PROVE  Tail(q) = [i \in 1 .. Len(q) - 1 |-> q[i + 1]]
<1> DEFINE p == [i \in 1 .. Len(q) - 1 |-> q[i + 1]]
<1>1. Len(q) \in Nat \ {0} /\ \A i \in 1 .. Len(q) - 1 : q[i + 1] \in S
  <2>1. Len(q) \in Nat \ {0}
    BY EmptySeq
  <2>2. \A i \in 1 .. Len(q) - 1 : i + 1 \in 1 .. Len(q)
    BY <2>1
  <2> QED
    BY <2>1, <2>2, ElementOfSeq
<1>2. p \in Seq(S) /\ Len(p) = Len(q) - 1
  BY <1>1
<1>3. \A i \in 1 .. Len(q) - 1 : p[i] = q[i + 1]
  OBVIOUS
<1>4. /\ Tail(q) \in Seq(S) /\ Len(Tail(q)) = Len(q) - 1
      /\ \A i \in 1 .. Len(q) - 1 : Tail(q)[i] = q[i + 1]
  BY HeadTailProperties
<1> HIDE DEF p
<1>5. Tail(q) = p
  BY <1>2, <1>3, <1>4, SeqEqual
<1> QED
  BY <1>5 DEF p

\* Nothing of what is handed over or waits on c changes: but for the current
\* thread, which takes nothing from c, the threads of W that can run again did
\* not sleep on c, and those of D with a new message do not hold one of c.
Calm(c, W, D) ==
  /\ me \in Threads
  /\ pc'[me] \notin RcvCalls \/ sched'.state[me] = "LWT_BLOCKED"
  /\ \A u \in Threads \ {me} : pc'[u] = pc[u]
  /\ SameRcving({me}) /\ OthersStand(W) /\ SameData(D)
  /\ \A u \in Threads : u \in W \cup {me} => pc[u] \notin RcvCalls \/ thd[u].now_rcving # c
  /\ \A u \in Threads \ {me} : u \in D => ~HandedTo(u, c) /\ ~OnList(sched.queue, c, u)

LEMMA HandedOnce ==
  ASSUME NEW c \in Chans, chan[c].receiver \in Threads \cup {NULL},
         chan'[c].receiver = chan[c].receiver,
         \A p \in Threads : p = chan[c].receiver =>
            /\ HandedTo(p, c)' <=> HandedTo(p, c)
            /\ HandedTo(p, c) => thd'[p].message_data = thd[p].message_data
  PROVE  Handed(c)' = Handed(c)
<1>1. CASE chan[c].receiver = NULL
  BY <1>1 DEF Handed
<1>2. ASSUME NEW r \in Threads, chan[c].receiver = r, r # NULL
      PROVE  Handed(c)' = Handed(c)
  <2>1. chan'[c].receiver = r /\ (HandedTo(r, c)' <=> HandedTo(r, c))
    BY <1>2
  <2>2. Handed(c) = IF HandedTo(r, c) THEN << thd[r].message_data >> ELSE << >>
    BY <1>2 DEF Handed
  <2>3. Handed(c)' = IF HandedTo(r, c)' THEN << thd'[r].message_data >> ELSE << >>
    BY <1>2, <2>1 DEF Handed
  <2> QED
    BY <1>2, <2>1, <2>2, <2>3
<1> QED
  BY <1>1, <1>2

LEMMA CalmHands ==
  ASSUME BaseInv, NEW c \in Chans, NEW W, NEW D, Calm(c, W, D),
         chan'[c].receiver = chan[c].receiver
  PROVE  Handed(c)' = Handed(c)
<1>1. chan[c].receiver \in Threads \cup {NULL}
  BY ChannelOf DEF BaseInv, IndInv
<1>2. ASSUME NEW p \in Threads
      PROVE  /\ HandedTo(p, c)' <=> HandedTo(p, c)
             /\ HandedTo(p, c) => thd'[p].message_data = thd[p].message_data
  <2>1. CASE p = me
    <3>1. ~HandedTo(p, c)
      BY <2>1 DEF Calm, HandedTo, InRcv, RcvCalls
    <3>2. ~(HandedTo(p, c)')
      BY <2>1 DEF Calm, HandedTo, InRcv, RcvCalls, IsRunnable
    <3> QED
      BY <3>1, <3>2
  <2>2. CASE p # me
    <3>1. pc'[p] = pc[p] /\ thd'[p].now_rcving = thd[p].now_rcving
      BY <2>2 DEF Calm, SameRcving
    <3>2. HandedTo(p, c)' <=> HandedTo(p, c)
      <4>1. CASE p \in W
        BY <3>1, <4>1 DEF Calm, HandedTo, InRcv, RcvCalls
      <4>2. CASE p \notin W
        BY <2>2, <3>1, <4>2 DEF Calm, OthersStand, Stands, IsRunnable, HandedTo, InRcv
      <4> QED
        BY <4>1, <4>2
    <3>3. HandedTo(p, c) => thd'[p].message_data = thd[p].message_data
      BY <2>2 DEF Calm, SameData
    <3> QED
      BY <3>2, <3>3
  <2> QED
    BY <2>1, <2>2
<1> QED
  BY <1>1, <1>2, HandedOnce

\* The messages of the blocked senders, if the queue does not change.
LEMMA SendersStill ==
  ASSUME BaseInv, NEW c \in Chans, sched'.queue[c] = sched.queue[c],
         \A u \in Threads : OnList(sched.queue, c, u) => thd'[u].message_data = thd[u].message_data
  PROVE  SendersData(c)' = SendersData(c)
<1> DEFINE q == sched.queue[c]
<1>1. q \in Seq(Threads)
  BY QueueSends
<1>2. \A i \in 1 .. Len(q) : thd'[q[i]].message_data = thd[q[i]].message_data
  BY <1>1 DEF OnList
<1>3. SendersData(c)' = [i \in 1 .. Len(q) |-> thd'[q[i]].message_data]
  BY DEF SendersData
<1>4. SendersData(c) = [i \in 1 .. Len(q) |-> thd[q[i]].message_data]
  BY DEF SendersData
<1> HIDE DEF q
<1> QED
  BY <1>2, <1>3, <1>4

LEMMA CalmSenders ==
  ASSUME BaseInv, NEW c \in Chans, NEW W, NEW D, Calm(c, W, D)
  PROVE  \A u \in Threads : OnList(sched.queue, c, u) => thd'[u].message_data = thd[u].message_data
BY QueueSends DEF Calm, SameData

LEMMA CalmPending ==
  ASSUME BaseInv, NEW c \in Chans, NEW W, NEW D, Calm(c, W, D),
         chan'[c].receiver = chan[c].receiver, chan'[c].buffer = chan[c].buffer,
         sched'.queue[c] = sched.queue[c]
  PROVE  Pending(c)' = Pending(c)
BY CalmHands, CalmSenders, SendersStill DEF Pending

\* The parts of Pending are sequences of messages.
LEMMA PendingParts ==
  ASSUME BaseInv, NEW c \in Chans
  PROVE  /\ Handed(c) \in Seq(Values \cup {NULL}) /\ chan[c].buffer \in Seq(Values \cup {NULL})
         /\ SendersData(c) \in Seq(Values \cup {NULL})
         /\ Len(SendersData(c)) = Len(sched.queue[c])
         /\ \A i \in 1 .. Len(sched.queue[c]) :
               SendersData(c)[i] = thd[sched.queue[c][i]].message_data
<1> DEFINE q == sched.queue[c]
<1>1. q \in Seq(Threads)
  BY QueueSends
<1>2. /\ chan[c].buffer \in Seq(Values \cup {NULL}) /\ chan[c].receiver \in Threads \cup {NULL}
      /\ \A u \in Threads : thd[u].message_data \in Values \cup {NULL}
  BY ChannelOf DEF BaseInv, IndInv, TypeOK, ThreadFields
<1>3. Handed(c) \in Seq(Values \cup {NULL})
  <2>1. CASE \E r \in Threads : r = chan[c].receiver /\ HandedTo(r, c) /\ r # NULL
    <3>1. PICK r \in Threads : r = chan[c].receiver /\ HandedTo(r, c) /\ r # NULL
      BY <2>1
    <3>2. Handed(c) = << thd[r].message_data >>
      BY <3>1 DEF Handed
    <3> QED
      BY <1>2, <3>2
  <2>2. CASE ~\E r \in Threads : r = chan[c].receiver /\ HandedTo(r, c) /\ r # NULL
    <3>1. Handed(c) = << >>
      BY <1>2, <2>2 DEF Handed
    <3> QED
      BY <3>1
  <2> QED
    BY <2>1, <2>2
<1>4. SendersData(c) = [i \in 1 .. Len(q) |-> thd[q[i]].message_data]
  BY DEF SendersData
<1> HIDE DEF q
<1>5. /\ SendersData(c) \in Seq(Values \cup {NULL}) /\ Len(SendersData(c)) = Len(q)
      /\ \A i \in 1 .. Len(q) : SendersData(c)[i] = thd[q[i]].message_data
  BY <1>1, <1>2, <1>4
<1> QED
  BY <1>2, <1>3, <1>5 DEF q

\* The current thread is handed nothing while it is not inside a receive.
LEMMA NothingHanded ==
  ASSUME BaseInv, NEW c \in Chans, chan[c].receiver = NULL \/ chan[c].receiver = me,
         me \in Threads => pc[me] \notin RcvCalls
  PROVE  Handed(c) = << >>
<1>1. chan[c].receiver \in Threads \cup {NULL}
  BY ChannelOf DEF BaseInv, IndInv
<1> QED
  BY <1>1 DEF Handed, HandedTo, InRcv, RcvCalls

\* The same after a step.
LEMMA NothingHandedNext ==
  ASSUME NEW c \in Chans, NEW r \in Threads \cup {NULL}, chan'[c].receiver = r,
         r # NULL => pc'[r] \notin RcvCalls
  PROVE  Handed(c)' = << >>
BY DEF Handed, HandedTo, InRcv, RcvCalls

-----------------------------------------------------------------------------
(* What each step does to what is pending.                                  *)

\* Nothing but on c.
PendingBut(C) ==
  \A d \in Chans \ C : /\ chan'[d].live = chan[d].live
                       /\ chan[d].live => Pending(d)' = Pending(d)

LEMMA CalmBut ==
  ASSUME BaseInv, NEW C, NEW W, NEW D,
         \A d \in Chans \ C : /\ Calm(d, W, D) /\ chan'[d].live = chan[d].live
                              /\ chan'[d].receiver = chan[d].receiver
                              /\ chan'[d].buffer = chan[d].buffer
                              /\ sched'.queue[d] = sched.queue[d]
  PROVE  PendingBut(C)
BY CalmPending DEF PendingBut

LEMMA PassesPending ==
  ASSUME BaseInv, Passes
  PROVE  PendingBut({})
<1>1. /\ me \in Threads /\ SameOwners /\ SameCalls /\ SameRcving({me}) /\ OthersStand({})
      /\ SameData({}) /\ SameContents({}) /\ SameQueues({})
      /\ pc[me] \notin RcvCalls /\ pc'[me] \notin RcvCalls
  BY DEF Passes, SendFrame, SameRcving, Leaves, RcvCalls, SndCalls
<1>2. \A d \in Chans : Calm(d, {}, {})
  BY <1>1 DEF Calm, SameCalls
<1> QED
  BY <1>1, <1>2, CalmBut DEF SameOwners, SameContents, SameQueues

\* The receiver, asleep, is handed the message of c, and is given none by any
\* other channel.
LEMMA HandsOffPending ==
  ASSUME BaseInv, JoinsInv, NEW c, NEW v, NEW k, HandsOff(c, v, k)
  PROVE  PendingBut({c}) /\ Pending(c)' = Append(Pending(c), v)
<1>1. PICK r \in Threads \ {me} : r = chan[c].receiver
  BY DEF HandsOff
<1>2. /\ me \in Threads /\ SameOwners /\ SameCalls /\ SameRcving({me}) /\ OthersStand({r})
      /\ SameData({me, r}) /\ SameContents({}) /\ SameQueues({}) /\ c \in Chans
      /\ pc[me] = "client" /\ pc'[me] = "client" /\ thd'[r].message_data = v
      /\ thd'[r].now_rcving = thd[r].now_rcving /\ pc'[r] = pc[r] /\ IsRunnable(sched', r)
      /\ ReceiverWaits(c) /\ Sender(c, v, k)
  BY <1>1 DEF HandsOff, Sender, SendFrame, SameRcving, SameCalls, Leaves, OthersStand
<1>3. AsleepOn(r, c)
  BY <1>1, <1>2, HandOffAsleep
<1>4. /\ chan[c].buffer = << >> /\ sched.queue[c] = << >>
      /\ InRcv(r) /\ thd[r].now_rcving = c /\ ~IsRunnable(sched, r)
  BY <1>2, <1>3 DEF BaseInv, ChansInv, ReceiversAwake, AsleepOn, IsRunnable
<1>5. \A d \in Chans \ {c} : Calm(d, {r}, {me, r})
  <2>1. \A d \in Chans : ~HandedTo(r, d) /\ ~OnList(sched.queue, d, r)
    BY <1>4, QueueSends DEF HandedTo, InRcv, RcvCalls
  <2> QED
    BY <1>2, <1>4, <2>1 DEF Calm, RcvCalls, SameCalls
<1>6. PendingBut({c})
  BY <1>2, <1>5, CalmBut DEF SameOwners, SameContents, SameQueues
<1>7. Handed(c) = << >> /\ Handed(c)' = << v >>
  <2>1. r # NULL /\ chan'[c].receiver = r
    BY <1>1, <1>2, SchedAssumption DEF SameOwners
  <2>2. ~HandedTo(r, c) /\ HandedTo(r, c)'
    BY <1>2, <1>4 DEF HandedTo, InRcv
  <2>3. Handed(c) = << >>
    BY <1>1, <2>1, <2>2 DEF Handed
  <2> QED
    BY <1>2, <2>1, <2>2, <2>3 DEF Handed
<1>8. SendersData(c) = << >> /\ SendersData(c)' = << >> /\ chan'[c].buffer = << >>
  BY <1>2, <1>4 DEF SendersData, SameQueues, SameContents
<1>9. Pending(c) = << >> /\ Pending(c)' = << v >>
  BY <1>4, <1>7, <1>8 DEF Pending
<1> QED
  BY <1>6, <1>9

LEMMA SendsCalm ==
  ASSUME BaseInv, NEW c, NEW v, NEW k, Buffers(c, v, k) \/ Blocks(c, v, k), NEW d \in Chans
  PROVE  Calm(d, Woken(c), {me})
<1>1. /\ me \in Threads /\ SameCalls /\ SameRcving({me}) /\ OthersStand(Woken(c))
      /\ SameData({me}) /\ c \in Chans /\ pc[me] = "client"
  BY DEF Buffers, Blocks, Sender, SendFrame, SameRcving
<1>2. pc'[me] \notin RcvCalls
  BY DEF Buffers, Blocks, Sender, Leaves, RcvCalls, SndCalls
<1>3. \A u \in Threads : u \in Woken(c) => pc[u] \notin RcvCalls
  BY <1>1, WokenWaits DEF RcvCalls
<1> QED
  BY <1>1, <1>2, <1>3 DEF Calm, RcvCalls, SameCalls

LEMMA BuffersPending ==
  ASSUME BaseInv, NEW c, NEW v, NEW k, Buffers(c, v, k)
  PROVE  PendingBut({c}) /\ Pending(c)' = Append(Pending(c), v)
<1> DEFINE b == chan[c].buffer
           M == Values \cup {NULL}
<1>1. /\ SameOwners /\ SameContents({c}) /\ SameQueues({}) /\ c \in Chans /\ v \in M
      /\ chan'[c].buffer = Append(b, v) /\ ~BufferFull(c)
  BY DEF Buffers, Sender, SendFrame
<1>2. \A d \in Chans : Calm(d, Woken(c), {me})
  BY SendsCalm
<1>3. PendingBut({c})
  BY <1>1, <1>2, CalmBut DEF SameOwners, SameContents, SameQueues
<1>4. sched.queue[c] = << >> /\ sched'.queue[c] = << >>
  BY <1>1 DEF BaseInv, ChansInv, EventsShown, SameQueues
<1>5. Handed(c)' = Handed(c) /\ Handed(c) \in Seq(M) /\ b \in Seq(M)
  BY <1>1, <1>2, CalmHands, PendingParts DEF SameOwners
<1>6. SendersData(c) = << >> /\ SendersData(c)' = << >>
  BY <1>4 DEF SendersData
<1> HIDE DEF b, M
<1>7. Pending(c)' = Handed(c) \o Append(b, v)
  <2>1. Pending(c)' = (Handed(c) \o Append(b, v)) \o << >>
    BY <1>1, <1>5, <1>6 DEF Pending
  <2>2. Append(b, v) \in Seq(M)
    BY <1>1, <1>5
  <2>3. Handed(c) \o Append(b, v) \in Seq(M)
    BY <1>5, <2>2, ConcatProperties
  <2> QED
    BY <2>1, <2>3, ConcatEmptySeq
<1>8. Pending(c) = Handed(c) \o b
  <2>1. Pending(c) = (Handed(c) \o b) \o << >>
    BY <1>6 DEF Pending, b
  <2>2. Handed(c) \o b \in Seq(M)
    BY <1>5, ConcatProperties
  <2> QED
    BY <2>1, <2>2, ConcatEmptySeq
<1> QED
  BY <1>1, <1>3, <1>5, <1>7, <1>8, AppendLast

LEMMA BlocksPending ==
  ASSUME BaseInv, NEW c, NEW v, NEW k, Blocks(c, v, k)
  PROVE  PendingBut({c}) /\ Pending(c)' = Append(Pending(c), v)
<1> DEFINE b == chan[c].buffer
           q == sched.queue[c]
           M == Values \cup {NULL}
<1>1. /\ SameOwners /\ SameContents({c}) /\ SameQueues({c}) /\ c \in Chans /\ v \in M
      /\ chan'[c].buffer = b /\ me \in Threads
      /\ sched'.queue[c] = Append(q, me) /\ thd'[me].message_data = v
  BY DEF Blocks, Sender, SendFrame
<1>2. \A d \in Chans : Calm(d, Woken(c), {me})
  BY SendsCalm
<1>3. PendingBut({c})
  BY <1>1, <1>2, CalmBut DEF SameOwners, SameContents, SameQueues
<1>4. Handed(c)' = Handed(c) /\ Handed(c) \in Seq(M) /\ b \in Seq(M) /\ SendersData(c) \in Seq(M)
  BY <1>1, <1>2, CalmHands, PendingParts DEF SameOwners
<1>5. SendersData(c)' = Append(SendersData(c), v)
  <2>1. \A u \in Threads : OnList(sched.queue, c, u) => thd'[u].message_data = thd[u].message_data
    BY <1>1, <1>2, CalmSenders
  <2>2. q \in Seq(Threads) /\ \A i \in 1 .. Len(q) : OnList(sched.queue, c, q[i])
    BY <1>1, QueueSends DEF OnList
  <2>3. \A i \in 1 .. Len(q) : thd'[q[i]].message_data = thd[q[i]].message_data
    BY <2>1, <2>2
  <2>4. /\ Len(SendersData(c)) = Len(q) /\ SendersData(c) \in Seq(M)
        /\ \A i \in 1 .. Len(q) : SendersData(c)[i] = thd[q[i]].message_data
    BY <1>1, PendingParts
  <2>5. SendersData(c)' = [i \in 1 .. Len(Append(q, me)) |-> thd'[Append(q, me)[i]].message_data]
    BY <1>1 DEF SendersData
  <2> DEFINE s == SendersData(c)
  <2> HIDE DEF q, M, s
  <2>6. Len(q) \in Nat /\ Len(Append(q, me)) = Len(q) + 1
        /\ \A i \in 1 .. Len(q) + 1 : Append(q, me)[i] = IF i <= Len(q) THEN q[i] ELSE me
    BY <1>1, <2>2
  <2>7. SendersData(c)' = [i \in 1 .. Len(q) + 1 |-> IF i <= Len(q) THEN s[i] ELSE v]
    BY <1>1, <2>3, <2>4, <2>5, <2>6 DEF s
  <2>8. Append(s, v) = [i \in 1 .. Len(s) + 1 |-> IF i <= Len(s) THEN s[i] ELSE v]
    BY <1>1, <2>4, AppendElements DEF s
  <2> QED
    BY <2>4, <2>7, <2>8 DEF s
<1> HIDE DEF b, q, M
<1>6. Pending(c)' = (Handed(c) \o b) \o Append(SendersData(c), v)
  BY <1>1, <1>4, <1>5 DEF Pending
<1>7. Pending(c) = (Handed(c) \o b) \o SendersData(c) /\ Handed(c) \o b \in Seq(M)
  BY <1>4, ConcatProperties DEF Pending, b
<1> QED
  BY <1>1, <1>3, <1>4, <1>6, <1>7, AppendLast

\* The first message of c is taken.
Pops(c, v) ==
  /\ PendingBut({c}) /\ chan[c].live /\ chan'[c].live
  /\ Pending(c) # << >> /\ v = Head(Pending(c)) /\ Pending(c)' = Tail(Pending(c))

\* The first blocked sender leaves the queue.
LEMMA SendersLeave ==
  ASSUME BaseInv, NEW c \in Chans, sched.queue[c] # << >>,
         sched'.queue[c] = Tail(sched.queue[c]),
         \A u \in Threads : OnList(sched.queue, c, u) => thd'[u].message_data = thd[u].message_data
  PROVE  /\ SendersData(c) # << >> /\ SendersData(c)' = Tail(SendersData(c))
         /\ Head(SendersData(c)) = thd[Head(sched.queue[c])].message_data
<1> DEFINE q == sched.queue[c]
           s == SendersData(c)
           M == Values \cup {NULL}
<1>1. q \in Seq(Threads) /\ \A i \in 1 .. Len(q) : OnList(sched.queue, c, q[i])
  BY QueueSends DEF OnList
<1>2. \A i \in 1 .. Len(q) : thd'[q[i]].message_data = thd[q[i]].message_data
  BY <1>1
<1>3. s \in Seq(M) /\ Len(s) = Len(q) /\ \A i \in 1 .. Len(q) : s[i] = thd[q[i]].message_data
  BY PendingParts
<1>4. SendersData(c)' = [i \in 1 .. Len(Tail(q)) |-> thd'[Tail(q)[i]].message_data]
  BY DEF SendersData
<1>5. q # << >>
  OBVIOUS
<1> HIDE DEF q, s, M
<1>6. /\ Len(q) \in Nat \ {0} /\ Len(Tail(q)) = Len(q) - 1 /\ Head(q) = q[1]
      /\ \A i \in 1 .. Len(q) - 1 : Tail(q)[i] = q[i + 1] /\ i + 1 \in 1 .. Len(q)
  BY <1>1, <1>5, EmptySeq, HeadTailProperties
<1>7. s # << >> /\ Head(s) = s[1]
  BY <1>3, <1>6
<1>8. Head(s) = thd[Head(q)].message_data
  BY <1>3, <1>6, <1>7
<1>9. SendersData(c)' = [i \in 1 .. Len(q) - 1 |-> s[i + 1]]
  BY <1>2, <1>3, <1>4, <1>6
<1>10. Tail(s) = [i \in 1 .. Len(s) - 1 |-> s[i + 1]]
  BY <1>3, <1>7, TailElements
<1> QED
  BY <1>3, <1>7, <1>8, <1>9, <1>10 DEF q, s

LEMMA TakesPending ==
  ASSUME BaseInv, NEW c, NEW v, NEW k, NEW x, Takes(c, v, k, x)
  PROVE  Pops(c, v)
<1> DEFINE b == chan[c].buffer
           q == sched.queue[c]
           s == SendersData(c)
           M == Values \cup {NULL}
<1>1. /\ me \in Threads /\ SameOwners /\ SameCalls /\ SameRcving({me}) /\ Unblocks(c)
      /\ SameContents({c}) /\ SameQueues({c}) /\ SameData({}) /\ c \in Chans
      /\ pc[me] \notin RcvCalls /\ pc'[me] \notin RcvCalls /\ chan[c].receiver = me
      /\ (FromBuffer(c, v) \/ FromSender(c, v))
  BY DEF Takes, Receiver, Delivers, SameRcving, RcvCalls
<1>2. PICK W : OthersStand(W) /\ \A u \in W : q # << >> /\ u = Head(q)
  BY <1>1 DEF Unblocks
<1>3. \A d \in Chans : Calm(d, W, {})
  <2>1. \A u \in W : pc[u] \notin RcvCalls
    BY <1>1, <1>2, QueueSends
  <2> QED
    BY <1>1, <1>2, <2>1 DEF Calm, SameCalls
<1>4. PendingBut({c})
  BY <1>1, <1>3, CalmBut DEF SameOwners, SameContents, SameQueues
<1>5. Handed(c) = << >> /\ Handed(c)' = << >> /\ chan[c].live /\ chan'[c].live
  <2>1. chan'[c].receiver = me /\ me # NULL
    BY <1>1, SchedAssumption DEF SameOwners
  <2>2. chan[c].live /\ chan'[c].live
    BY <1>1, <2>1 DEF BaseInv, ChansInv, FreeUnowned, SameOwners
  <2>3. \A r \in Threads : r = me => pc'[r] \notin RcvCalls
    BY <1>1
  <2>4. Handed(c)' = << >>
    BY <1>1, <2>1, <2>3, NothingHandedNext
  <2> QED
    BY <1>1, <2>2, <2>4, NothingHanded
<1>7. b \in Seq(M) /\ s \in Seq(M)
  BY <1>1, PendingParts
<1>8. CASE q = << >>
  <2>1. s = << >> /\ SendersData(c)' = << >>
    BY <1>1, <1>8 DEF SendersData, Unblocks
  <2>2. b # << >> /\ v = Head(b) /\ chan'[c].buffer = Tail(b)
    BY <1>1, <1>8 DEF FromBuffer, FromSender, Refilled
  <2>3. Tail(b) \in Seq(M) /\ << >> \o b = b /\ << >> \o Tail(b) = Tail(b)
    <3> HIDE DEF b, M
    <3>1. Tail(b) \in Seq(M)
      BY <1>7, <2>2, HeadTailProperties
    <3> QED
      BY <1>7, <3>1, ConcatEmptySeq
  <2>4. Pending(c) = b \o s /\ Pending(c)' = Tail(b) \o s
    BY <1>5, <2>1, <2>2, <2>3 DEF Pending
  <2> HIDE DEF b, s, M
  <2> QED
    BY <1>4, <1>5, <1>7, <2>2, <2>4, TakeFirst DEF Pops
<1>9. CASE q # << >>
  <2>1. \A u \in Threads : OnList(sched.queue, c, u) => thd'[u].message_data = thd[u].message_data
    BY <1>1, <1>3, CalmSenders
  <2>2. /\ s # << >> /\ SendersData(c)' = Tail(s) /\ Head(s) = thd[Head(q)].message_data
    BY <1>1, <1>9, <2>1, SendersLeave DEF Unblocks
  <2>3. Tail(s) \in Seq(M) /\ Head(s) \in M
    BY <1>7, <2>2, HeadTailProperties
  <2>4. CASE FromBuffer(c, v)
    <3>1. b # << >> /\ v = Head(b) /\ chan'[c].buffer = Append(Tail(b), Head(s))
      BY <1>9, <2>2, <2>4 DEF FromBuffer, Refilled
    <3> HIDE DEF b, s, M
    <3>2. Tail(b) \in Seq(M) /\ Append(Tail(b), Head(s)) \in Seq(M)
      BY <1>7, <2>3, <3>1, HeadTailProperties
    <3>3. Pending(c) = b \o s
      BY <1>5, <1>7, ConcatEmptySeq DEF Pending, b, s
    <3>4. Pending(c)' = Append(Tail(b), Head(s)) \o Tail(s)
      <4>1. Pending(c)' = (<< >> \o Append(Tail(b), Head(s))) \o Tail(s)
        BY <1>5, <2>2, <3>1 DEF Pending
      <4> QED
        BY <3>2, <4>1, ConcatEmptySeq
    <3>5. Pending(c)' = Tail(b) \o s
      BY <1>7, <2>2, <3>2, <3>4, MoveFirst
    <3>6. b \o s # << >> /\ Head(b \o s) = Head(b) /\ Tail(b \o s) = Tail(b) \o s
      BY <1>7, <3>1, TakeFirst
    <3> QED
      BY <1>4, <1>5, <3>1, <3>3, <3>5, <3>6 DEF Pops
  <2>5. CASE FromSender(c, v)
    <3>1. b = << >> /\ v = Head(s) /\ chan'[c].buffer = << >>
      BY <2>2, <2>5 DEF FromSender
    <3> HIDE DEF b, s, M
    <3>2. Pending(c) = s
      BY <1>5, <1>7, <3>1, ConcatEmptySeq DEF Pending, b, s
    <3>3. Pending(c)' = Tail(s)
      <4>1. Pending(c)' = (<< >> \o << >>) \o Tail(s)
        BY <1>5, <2>2, <3>1 DEF Pending
      <4> QED
        BY <2>3, <4>1, ConcatEmptySeq
    <3> QED
      BY <1>4, <1>5, <2>2, <3>1, <3>2, <3>3 DEF Pops
  <2> QED
    BY <1>1, <2>4, <2>5
<1> QED
  BY <1>8, <1>9

LEMMA AwakesPending ==
  ASSUME BaseInv, Awakes
  PROVE  thd[me].now_rcving \in Chans /\ Pops(thd[me].now_rcving, thd[me].message_data)
<1> DEFINE m == thd[me].message_data
           M == Values \cup {NULL}
<1>1. /\ me \in Threads /\ InRcv(me) /\ SameOwners /\ SameCalls /\ SameData({}) /\ SameRcving({})
      /\ SameContents({}) /\ SameQueues({}) /\ OthersStand({}) /\ pc'[me] \notin RcvCalls
  BY DEF Awakes, Delivers, RcvCalls
<1>2. PICK c \in Chans : c = thd[me].now_rcving /\ chan[c].receiver = me
  BY <1>1 DEF BaseInv, ChansInv, ReceiversOwn
<1>3. \A d \in Chans \ {c} : Calm(d, {}, {})
  BY <1>1, <1>2 DEF Calm, SameRcving, SameCalls
<1>4. PendingBut({c})
  BY <1>1, <1>3, CalmBut DEF SameOwners, SameContents, SameQueues
<1>5. Handed(c) = << m >> /\ m \in M
  <2>1. HandedTo(me, c) /\ me # NULL
    BY <1>1, <1>2, CurrentFacts DEF HandedTo
  <2>2. m \in M
    BY <1>1 DEF BaseInv, IndInv, TypeOK, ThreadFields
  <2> QED
    BY <1>2, <2>1, <2>2 DEF Handed
<1>6. Handed(c)' = << >> /\ chan[c].live /\ chan'[c].live
  <2>1. chan'[c].receiver = me /\ me # NULL
    BY <1>1, <1>2, SchedAssumption DEF SameOwners
  <2>2. chan[c].live /\ chan'[c].live
    BY <1>1, <1>2, <2>1 DEF BaseInv, ChansInv, FreeUnowned, SameOwners
  <2>3. \A r \in Threads : r = me => pc'[r] \notin RcvCalls
    BY <1>1
  <2> QED
    BY <1>1, <2>1, <2>2, <2>3, NothingHandedNext
<1>7. SendersData(c)' = SendersData(c) /\ chan'[c].buffer = chan[c].buffer
  BY <1>1, SendersStill DEF SameContents, SameQueues, SameData
<1> DEFINE b == chan[c].buffer
           s == SendersData(c)
<1>8. b \in Seq(M) /\ s \in Seq(M) /\ << m >> \in Seq(M)
  BY <1>5, PendingParts
<1>9. Pending(c) = (<< m >> \o b) \o s
  BY <1>5 DEF Pending
<1>10. Pending(c)' = b \o s
  <2>1. Pending(c)' = (<< >> \o b) \o s
    BY <1>6, <1>7 DEF Pending
  <2> QED
    BY <1>8, <2>1, ConcatEmptySeq
<1> HIDE DEF m, M, b, s
<1>11. /\ << m >> \o b # << >> /\ Head(<< m >> \o b) = m /\ Tail(<< m >> \o b) = b
       /\ << m >> \o b \in Seq(M)
  <2>1. << m >> # << >> /\ Head(<< m >>) = m /\ Tail(<< m >>) = << >>
    OBVIOUS
  <2> QED
    BY <1>8, <2>1, TakeFirst, ConcatEmptySeq, ConcatProperties
<1>12. Pending(c) # << >> /\ Head(Pending(c)) = m /\ Tail(Pending(c)) = b \o s
  BY <1>8, <1>9, <1>11, TakeFirst
<1>13. Pops(c, m)
  BY <1>4, <1>6, <1>10, <1>12 DEF Pops
<1> QED
  BY <1>2, <1>13 DEF m

LEMMA SleepsPending ==
  ASSUME BaseInv, NEW c, NEW k, NEW x, Sleeps(c, k, x)
  PROVE  PendingBut({})
<1>1. /\ me \in Threads /\ SameOwners /\ SameCalls /\ SameRcving({me}) /\ OthersStand({})
      /\ SameData({}) /\ SameContents({}) /\ SameQueues({})
      /\ pc[me] \notin RcvCalls /\ sched'.state[me] = "LWT_BLOCKED"
  BY DEF Sleeps, Receiver, RcvCalls
<1>2. \A d \in Chans : Calm(d, {}, {})
  BY <1>1 DEF Calm, SameCalls
<1> QED
  BY <1>1, <1>2, CalmBut DEF SameOwners, SameContents, SameQueues

\* Steps between two calls that change no thread.
LEMMA ClientCalm ==
  ASSUME me \in Threads, pc[me] = "client", UNCHANGED << thd, pc >>, NEW d,
         \A u \in Threads : sched'.state[u] = sched.state[u] /\ sched'.block_for[u] = sched.block_for[u]
  PROVE  Calm(d, {}, {})
<1>1. pc'[me] \notin RcvCalls /\ pc[me] \notin RcvCalls
  BY DEF RcvCalls
<1>2. SameRcving({me}) /\ OthersStand({}) /\ SameData({})
  BY DEF SameRcving, OthersStand, Stands, IsRunnable, SameData
<1> QED
  BY <1>1, <1>2 DEF Calm

LEMMA InitsPending ==
  ASSUME NEW c \in Chans, NEW size, NEW n, Inits(c, size, n), me \in Threads, pc[me] = "client",
         \A r \in Threads : r = me => pc'[r] = pc[r]
  PROVE  ~chan[c].live /\ chan'[c].live /\ Pending(c)' = << >>
<1>1. /\ ~chan[c].live /\ chan'[c].live /\ chan'[c].receiver = me
      /\ chan'[c].buffer = << >> /\ sched'.queue[c] = << >>
  BY DEF Inits
<1>2. Handed(c)' = << >>
  <2>1. \A r \in Threads : r = me => pc'[r] \notin RcvCalls
    BY DEF RcvCalls
  <2> QED
    BY <1>1, <2>1, NothingHandedNext
<1>3. SendersData(c)' = << >>
  BY <1>1 DEF SendersData
<1> QED
  BY <1>1, <1>2, <1>3 DEF Pending

LEMMA OpensPending ==
  ASSUME BaseInv, NEW c, NEW size, Opens(c, size)
  PROVE  PendingBut({c}) /\ ~chan[c].live /\ chan'[c].live /\ Pending(c)' = << >>
<1>1. /\ me \in Threads /\ c \in Chans /\ Inits(c, size, 0) /\ UNCHANGED << thd, pc >>
      /\ pc[me] = "client" /\ SameQueues({c}) /\ \A d \in Chans \ {c} : chan'[d] = chan[d]
  BY DEF Opens, Inits, SameChannel
<1>2. \A d \in Chans : Calm(d, {}, {})
  BY <1>1, ClientCalm DEF Opens
<1>3. PendingBut({c})
  BY <1>1, <1>2, CalmBut DEF SameQueues
<1> QED
  BY <1>1, <1>3, InitsPending

LEMMA SpawnsPending ==
  ASSUME BaseInv, NEW t, NEW x, NEW given, Spawns(t, x, given)
  PROVE  PendingBut({x}) /\ ~chan[x].live /\ chan'[x].live /\ Pending(x)' = << >>
<1>1. /\ me \in Threads /\ pc[me] = "client" /\ x \in Chans /\ Inits(x, 0, 1)
      /\ SameQueues({x}) /\ t \in Threads \ {me} /\ pc[t] = "client"
      /\ thd'[t].now_rcving = thd[t].now_rcving /\ \A u \in Threads \ {t} : thd'[u] = thd[u]
      /\ \A d \in Chans \ {x} : /\ chan'[d].live = chan[d].live /\ chan'[d].buffer = chan[d].buffer
                                /\ chan'[d].receiver = chan[d].receiver
  BY DEF Spawns, Inits
<1>2. \A u \in Threads : pc'[u] = pc[u]
  BY <1>1 DEF Spawns
<1>3. OthersStand({t})
  BY <1>1 DEF Spawns, OthersStand, Stands, IsRunnable
<1>4. \A d \in Chans : Calm(d, {t}, {t})
  <2>1. \A d \in Chans : ~HandedTo(t, d) /\ ~OnList(sched.queue, d, t)
    BY <1>1 DEF HandedTo, InRcv, BaseInv, ChansInv, SendersHold, Sending
  <2> QED
    BY <1>1, <1>2, <1>3, <2>1 DEF Calm, SameRcving, SameData, RcvCalls
<1>5. PendingBut({x})
  BY <1>1, <1>4, CalmBut DEF SameQueues
<1> QED
  BY <1>1, <1>2, <1>5, InitsPending

\* The receiver that gives c up is handed nothing; c may be freed.
LEMMA DropsPending ==
  ASSUME BaseInv, NEW c, Drops(c)
  PROVE  /\ PendingBut({c}) /\ chan[c].live
         /\ chan'[c].live => Pending(c)' = Pending(c)
<1>1. /\ me \in Threads /\ c \in Chans /\ pc[me] = "client" /\ UNCHANGED << sched, thd, pc >>
      /\ chan'[c].buffer = chan[c].buffer /\ \A d \in Chans \ {c} : chan'[d] = chan[d]
      /\ MayDeref(c)
      /\ IF chan[c].receiver = me THEN chan'[c].receiver = NULL
                                  ELSE chan'[c].receiver = chan[c].receiver
  BY DEF Drops, SameChannel
<1>2. \A d \in Chans : Calm(d, {}, {})
  BY <1>1, ClientCalm
<1>3. PendingBut({c})
  BY <1>1, <1>2, CalmBut
<1>4. chan[c].live
  BY <1>1 DEF MayDeref, Knows, BaseInv, ChansInv, FreeUnowned
<1>5. Pending(c)' = Pending(c)
  <2>1. CASE chan[c].receiver = me
    <3>1. Handed(c) = << >> /\ Handed(c)' = << >>
      BY <1>1, <2>1, NothingHanded, NothingHandedNext DEF RcvCalls
    <3>2. SendersData(c)' = SendersData(c)
      BY <1>1, SendersStill
    <3> QED
      BY <1>1, <3>1, <3>2 DEF Pending
  <2>2. CASE chan[c].receiver # me
    BY <1>1, <1>2, <2>2, CalmPending
  <2> QED
    BY <2>1, <2>2
<1> QED
  BY <1>3, <1>4, <1>5

LEMMA RegroupsPending ==
  ASSUME BaseInv, NEW g, NEW c, NEW h, Regroups(g, c, h)
  PROVE  PendingBut({})
<1>1. /\ me \in Threads /\ pc[me] = "client" /\ UNCHANGED << sched, thd, pc >>
      /\ SameOwners /\ SameContents({})
  BY DEF Regroups, Owner
<1>2. \A d \in Chans : Calm(d, {}, {})
  BY <1>1, ClientCalm
<1> QED
  BY <1>1, <1>2, CalmBut DEF SameOwners, SameContents

LEMMA WaitingPending ==
  ASSUME BaseInv, NEW g, (\E c : Returns(g, c)) \/ Waits(g)
  PROVE  PendingBut({})
<1>1. /\ me \in Threads /\ SameCalls /\ UNCHANGED << thd, chan >> /\ OthersStand({})
      /\ pc[me] \notin RcvCalls /\ pc'[me] \notin RcvCalls /\ SameQueues({})
  BY DEF Returns, Waits, Waiting, OthersStand, Stands, IsRunnable, RcvCalls, SameQueues
<1>2. \A d \in Chans : Calm(d, {}, {})
  BY <1>1 DEF Calm, SameRcving, SameData, SameCalls
<1> QED
  BY <1>1, <1>2, CalmBut DEF SameQueues

LEMMA StillPending ==
  ASSUME UNCHANGED << sched, thd, chan, pc >>
  PROVE  PendingBut({})
BY DEF PendingBut, Pending, Handed, SendersData, HandedTo, InRcv, IsRunnable

-----------------------------------------------------------------------------
(* The refinement.                                                          *)

\* The state of FifoChannels under the mapping.
OpenOf == [c \in Chans |-> chan[c].live]
QueueOf == [c \in Chans |-> IF chan[c].live THEN Pending(c) ELSE << >>]

LEMMA FifoStutters ==
  ASSUME PendingBut({}), UNCHANGED delivered
  PROVE  UNCHANGED Fifo!vars
<1>1. OpenOf' = OpenOf /\ QueueOf' = QueueOf
  BY DEF PendingBut, OpenOf, QueueOf
<1> QED
  BY <1>1 DEF Fifo!vars, OpenOf, QueueOf

LEMMA FifoSends ==
  ASSUME TypeOK, TypeOK', NEW c \in Chans, NEW v \in Values, PendingBut({c}),
         chan[c].live, chan'[c].live, Pending(c)' = Append(Pending(c), v), UNCHANGED delivered
  PROVE  Fifo!Send(c, v)
<1>0. chan[c].live = chan'[c].live
  BY DEF TypeOK, Channel
<1>1. OpenOf' = OpenOf /\ OpenOf[c]
  BY <1>0 DEF PendingBut, OpenOf
<1>2. QueueOf' = [QueueOf EXCEPT ![c] = Append(@, v)]
  BY DEF PendingBut, QueueOf
<1> QED
  BY <1>1, <1>2 DEF Fifo!Send, OpenOf, QueueOf

LEMMA FifoReceives ==
  ASSUME TypeOK, TypeOK', NEW c \in Chans, NEW v, Pops(c, v), delivered' = << c, v >>
  PROVE  Fifo!Receive(c)
<1>0. chan[c].live = chan'[c].live
  BY DEF Pops, TypeOK, Channel
<1>1. OpenOf' = OpenOf /\ OpenOf[c]
  BY <1>0 DEF Pops, PendingBut, OpenOf
<1>2. /\ QueueOf' = [QueueOf EXCEPT ![c] = Tail(@)] /\ QueueOf[c] # << >>
      /\ delivered' = << c, Head(QueueOf[c]) >>
  BY DEF Pops, PendingBut, QueueOf
<1> QED
  BY <1>1, <1>2 DEF Fifo!Receive, OpenOf, QueueOf

LEMMA FifoOpens ==
  ASSUME TypeOK', NEW c \in Chans, PendingBut({c}), ~chan[c].live, chan'[c].live,
         Pending(c)' = << >>, UNCHANGED delivered
  PROVE  Fifo!Open(c)
<1>0. chan'[c].live = TRUE
  BY DEF TypeOK, Channel
<1>1. OpenOf' = [OpenOf EXCEPT ![c] = TRUE] /\ ~OpenOf[c]
  BY <1>0 DEF PendingBut, OpenOf
<1>2. QueueOf' = QueueOf
  BY DEF PendingBut, QueueOf
<1> QED
  BY <1>1, <1>2 DEF Fifo!Open, OpenOf, QueueOf

LEMMA FifoCloses ==
  ASSUME TypeOK', NEW c \in Chans, PendingBut({c}), chan[c].live, ~(chan'[c].live),
         UNCHANGED delivered
  PROVE  Fifo!Close(c)
<1>0. chan'[c].live = FALSE
  BY DEF TypeOK, Channel
<1>1. OpenOf' = [OpenOf EXCEPT ![c] = FALSE] /\ OpenOf[c]
  BY <1>0 DEF PendingBut, OpenOf
<1>2. QueueOf' = [QueueOf EXCEPT ![c] = << >>]
  BY DEF PendingBut, QueueOf
<1> QED
  BY <1>1, <1>2 DEF Fifo!Close, OpenOf, QueueOf

LEMMA StepFifo ==
  ASSUME BaseInv, BaseInv', JoinsInv, Step
  PROVE  Fifo!Next \/ UNCHANGED Fifo!vars
<1>0. TypeOK /\ TypeOK'
  BY DEF BaseInv, IndInv
<1>1. CASE Passes
  BY <1>1, PassesPending, FifoStutters DEF Passes, SendFrame
<1>2. ASSUME NEW c \in Chans, NEW v \in Values, NEW k \in SndCalls,
             HandsOff(c, v, k) \/ Buffers(c, v, k) \/ Blocks(c, v, k)
      PROVE  Fifo!Next
  <2>1. PendingBut({c}) /\ Pending(c)' = Append(Pending(c), v)
    BY <1>2, HandsOffPending, BuffersPending, BlocksPending
  <2>2. chan[c].receiver # NULL /\ SameOwners /\ UNCHANGED delivered
    BY <1>2, SchedAssumption DEF HandsOff, Buffers, Blocks, SendFrame
  <2>3. chan[c].live /\ chan'[c].live
    BY <2>2 DEF BaseInv, ChansInv, FreeUnowned, SameOwners
  <2>4. Fifo!Send(c, v)
    BY <1>0, <2>1, <2>2, <2>3, FifoSends
  <2> QED
    BY <2>4 DEF Fifo!Next
<1>3. ASSUME NEW c \in Chans, NEW k \in RcvCalls, NEW x \in Threads \cup {NULL},
             NEW v \in Values \cup {NULL}, Takes(c, v, k, x)
      PROVE  Fifo!Next
  <2>1. delivered' = << c, v >>
    BY <1>3 DEF Takes, Delivers
  <2>2. Fifo!Receive(c)
    BY <1>0, <1>3, <2>1, TakesPending, FifoReceives
  <2> QED
    BY <2>2 DEF Fifo!Next
<1>4. ASSUME NEW c \in Chans, NEW k \in RcvCalls, NEW x \in Threads \cup {NULL}, Sleeps(c, k, x)
      PROVE  UNCHANGED Fifo!vars
  BY <1>4, SleepsPending, FifoStutters DEF Sleeps
<1>5. CASE Awakes
  <2>1. PICK c \in Chans : c = thd[me].now_rcving /\ Pops(c, thd[me].message_data)
    BY <1>5, AwakesPending
  <2>2. delivered' = << c, thd[me].message_data >>
    BY <1>5, <2>1 DEF Awakes, Delivers
  <2>3. Fifo!Receive(c)
    BY <1>0, <2>1, <2>2, FifoReceives
  <2> QED
    BY <2>3 DEF Fifo!Next
<1>6. ASSUME NEW c \in Chans, NEW size \in Nat, Opens(c, size)
      PROVE  Fifo!Next
  <2>1. Fifo!Open(c)
    BY <1>0, <1>6, OpensPending, FifoOpens DEF Opens
  <2> QED
    BY <2>1 DEF Fifo!Next
<1>7. ASSUME NEW t \in Threads, NEW x \in Chans, NEW given \in Chans \cup {NULL},
             Spawns(t, x, given)
      PROVE  Fifo!Next
  <2>1. UNCHANGED delivered
    BY <1>7 DEF Spawns
  <2>2. PendingBut({x}) /\ ~chan[x].live /\ chan'[x].live /\ Pending(x)' = << >>
    BY <1>7, SpawnsPending
  <2>3. Fifo!Open(x)
    BY <1>0, <2>1, <2>2, FifoOpens
  <2> QED
    BY <2>3 DEF Fifo!Next
<1>8. ASSUME NEW c \in Chans, Drops(c)
      PROVE  Fifo!Next \/ UNCHANGED Fifo!vars
  <2>1. /\ PendingBut({c}) /\ chan[c].live /\ UNCHANGED delivered
        /\ chan'[c].live => Pending(c)' = Pending(c)
    BY <1>8, DropsPending DEF Drops
  <2>2. CASE chan'[c].live
    <3>1. PendingBut({})
      BY <1>0, <2>1, <2>2 DEF PendingBut, TypeOK, Channel
    <3> QED
      BY <2>1, <3>1, FifoStutters
  <2>3. CASE ~(chan'[c].live)
    <3>1. Fifo!Close(c)
      BY <1>0, <2>1, <2>3, FifoCloses
    <3> QED
      BY <3>1 DEF Fifo!Next
  <2> QED
    BY <2>2, <2>3
<1>9. ASSUME NEW g \in Groups, NEW c \in Chans, Adds(g, c) \/ Removes(g, c)
      PROVE  UNCHANGED Fifo!vars
  BY <1>9, RegroupsPending, FifoStutters DEF Adds, Removes, Regroups, clientVars
<1>10. ASSUME NEW g \in Groups, (\E c \in Chans : Returns(g, c)) \/ Waits(g)
       PROVE  UNCHANGED Fifo!vars
  BY <1>10, WaitingPending, FifoStutters DEF Returns, Waits, Waiting
<1>11. ASSUME NEW g \in Groups, Renews(g)
       PROVE  UNCHANGED Fifo!vars
  BY <1>11, StillPending, FifoStutters DEF Renews, clientVars
<1> QED
  BY <1>1, <1>2, <1>3, <1>4, <1>5, <1>6, <1>7, <1>8, <1>9, <1>10, <1>11 DEF Step

\* The channels implement the queues of FifoChannels: whoever blocks, is
\* resumed, is handed a message or joins in between, lwt_snd puts its message
\* behind all others and lwt_rcv takes the oldest, each once.
THEOREM ChannelsAreFifo ==
  ASSUME "deref_in_flight" \notin Careless, "wait_after_rcv" \notin Careless
  PROVE  Spec => ImplementsFifo
<1>1. Init => Fifo!Init
  BY DEF Init, Fifo!Init
<1>2. (BaseInv /\ RefsInv /\ JoinsInv) /\ (BaseInv /\ RefsInv /\ JoinsInv)' /\ [Next]_vars
        => [Fifo!Next]_(Fifo!vars)
  <2> SUFFICES ASSUME BaseInv, JoinsInv, BaseInv', [Next]_vars
               PROVE  Fifo!Next \/ UNCHANGED Fifo!vars
    OBVIOUS
  <2>1. CASE Next
    BY <2>1, NextShape, StepFifo
  <2>2. CASE UNCHANGED vars
    BY <2>2, StillPending, FifoStutters DEF vars
  <2> QED
    BY <2>1, <2>2
<1> QED
  BY <1>1, <1>2, JoinsInvHolds, PTL DEF Spec, ImplementsFifo, Fifo!Spec

\* What lwt_snd takes from a sender is pending from then on.
THEOREM SentStaysPending ==
  ASSUME "deref_in_flight" \notin Careless, "wait_after_rcv" \notin Careless
  PROVE  Spec => SentIsPending
<1>1. (BaseInv /\ RefsInv /\ JoinsInv) /\ [Next]_vars
        => [\A c \in Chans, v \in Data :
              lwt_snd(c, v) => chan[c].receiver = NULL \/ Pending(c)' = Append(Pending(c), v)]_vars
  <2> SUFFICES ASSUME BaseInv, JoinsInv, NEW c \in Chans, NEW v \in Data, lwt_snd(c, v),
                      chan[c].receiver # NULL
               PROVE  Pending(c)' = Append(Pending(c), v)
    OBVIOUS
  <2>1. HandsOff(c, v, "lwt_snd") \/ Buffers(c, v, "lwt_snd") \/ Blocks(c, v, "lwt_snd")
    BY LwtSndShape
  <2> QED
    BY <2>1, HandsOffPending, BuffersPending, BlocksPending
<1> QED
  BY <1>1, JoinsInvHolds, PTL DEF Spec, SentIsPending
=============================================================================
