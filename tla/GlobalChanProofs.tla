--------------------------- MODULE GlobalChanProofs ---------------------------
(***************************************************************************)
(* Proofs about GlobalChan: the two locks keep the ring and the wakeup     *)
(* queue whole, for any number of senders, any size and any preemptions;   *)
(* and the receiver's kernel thread goes to sleep only when no other       *)
(* thread of it can run.                                                   *)
(***************************************************************************)
EXTENDS GlobalChan, LwtSchedProofs

-----------------------------------------------------------------------------
(* The inductive invariant.                                                 *)

InRing(s) == pc[s] \in {"store", "stored", "unlock"}
InQueue(s) == pc[s] \in {"enqueue", "link", "wq_unlock"}

\* Each lock word is 1 while a sender is inside, and only then, and only one is.
LocksInv ==
  /\ rb_occupied = 1 => \E s \in Senders : InRing(s)
  /\ wq_occupied = 1 => \E s \in Senders : InQueue(s)
  /\ \A s \in Senders : (InRing(s) => rb_occupied = 1) /\ (InQueue(s) => wq_occupied = 1)
  /\ \A s, r \in Senders : InRing(s) /\ InRing(r) => s = r
  /\ \A s, r \in Senders : InQueue(s) /\ InQueue(r) => s = r

Storing(s) == pc[s] \in {"store", "stored"}

\* The messages that the ring keeps when a further k are about to be stored.
Kept(k) ==
  \A i \in 1 .. Len(log) : i + Size > Len(log) + k => slots[(i - 1) % Size] = log[i]

\* The ring between the stores of one sender, and when nobody is inside.
RingInv ==
  /\ (\A s \in Senders : ~Storing(s)) => tail = Len(log) /\ Kept(0)
  /\ \A s \in Senders : pc[s] = "store" => tail = Len(log) /\ at[s] = tail /\ Kept(0)
  /\ \A s \in Senders : pc[s] = "stored" =>
       /\ at[s] = Len(log) /\ Kept(1)
       /\ \/ tail = at[s] /\ slots[at[s] % Size] = message(s)
          \/ tail = at[s] + 1

Announced(m) == \E j \in 1 .. Len(wakeup_queue) : wakeup_queue[j] = m

\* A sender that links has seen the whole queue; what is sent is announced.
QueueInv ==
  \A s \in Senders :
    /\ pc[s] # "client" => n[s] >= 1
    /\ pc[s] = "link" => last[s] = wakeup_queue
    /\ \A i \in 1 .. MaxSends :
         i < n[s] \/ (i = n[s] /\ pc[s] \in {"client", "wq_unlock"}) => Announced(<< s, i >>)

GlobalInv == TypeOK /\ LocksInv /\ RingInv /\ QueueInv

-----------------------------------------------------------------------------
(* Places of the ring.                                                      *)

\* Of numbers less than Size apart no two have the same place.
LEMMA PlacesDiffer ==
  ASSUME NEW a \in Nat, NEW b \in Nat, a < b, b < a + Size
  PROVE  a % Size # b % Size
<1> DEFINE qa == a \div Size
           qb == b \div Size
<1>1. Size \in Nat /\ Size > 0
  BY GlobalAssumption
<1>2. /\ qa \in Nat /\ qb \in Nat
      /\ a = Size * qa + (a % Size) /\ b = Size * qb + (b % Size)
  BY <1>1
<1>3. SUFFICES ASSUME a % Size = b % Size
               PROVE  FALSE
  OBVIOUS
<1>4. a % Size \in Nat
  BY <1>1
<1> HIDE DEF qa, qb
<1>5. Size * qb - Size * qa = b - a
  BY <1>1, <1>2, <1>3, <1>4
<1>6. Size * qb - Size * qa = Size * (qb - qa)
  BY <1>1, <1>2
<1>7. CASE qb - qa <= 0
  <2>1. Size * (qb - qa) <= 0
    BY <1>1, <1>2, <1>7
  <2> QED
    BY <2>1, <1>5, <1>6
<1>8. CASE qb - qa >= 1
  <2>1. Size * (qb - qa) >= Size
    BY <1>1, <1>2, <1>8
  <2> QED
    BY <2>1, <1>1, <1>5, <1>6
<1> QED
  BY <1>1, <1>2, <1>7, <1>8

\* A number has a place.
LEMMA PlaceInRing ==
  ASSUME NEW a \in Nat
  PROVE  a % Size \in 0 .. Size - 1
  BY GlobalAssumption

-----------------------------------------------------------------------------
(* The steps of a sender.                                                   *)

\* A sender that calls lwt_sync_snd has announced what it sent before.
LEMMA SndStarts ==
  ASSUME GlobalInv, NEW s \in Senders, lwt_sync_snd(s)
  PROVE  GlobalInv'
<1> USE GlobalAssumption DEF lwt_sync_snd, Goes
<1>1. TypeOK'
  BY DEF GlobalInv, TypeOK, Places, chanVars, queueVars
<1>2. LocksInv'
  BY DEF GlobalInv, TypeOK, LocksInv, InRing, InQueue, Free, chanVars, queueVars
<1>3. RingInv'
  BY DEF GlobalInv, TypeOK, RingInv, Storing, Kept, message, chanVars, queueVars
<1>4. QueueInv'
  <2>1. n'[s] = n[s] + 1 /\ pc[s] = "client" /\ pc'[s] = "lock" /\ n[s] \in Nat
    BY DEF GlobalInv, TypeOK
  <2>2. \A r \in Senders : r # s => n'[r] = n[r] /\ pc'[r] = pc[r]
    BY DEF GlobalInv, TypeOK
  <2>3. wakeup_queue' = wakeup_queue /\ last' = last
    BY DEF queueVars
  <2>4. ASSUME NEW i \in 1 .. MaxSends, i < n[s] + 1
        PROVE  Announced(<< s, i >>)
    BY <2>1, <2>4 DEF GlobalInv, QueueInv
  <2>5. \A m : Announced(m)' <=> Announced(m)
    BY <2>3 DEF Announced
  <2>6. ASSUME NEW r \in Senders, NEW i \in 1 .. MaxSends,
               i < n'[r] \/ (i = n'[r] /\ pc'[r] \in {"client", "wq_unlock"})
        PROVE  Announced(<< r, i >>)
    <3>1. CASE r = s
      BY <2>1, <2>4, <2>6, <3>1
    <3>2. CASE r # s
      BY <2>2, <2>6, <3>2 DEF GlobalInv, QueueInv
    <3> QED
      BY <3>1, <3>2
  <2>7. ASSUME NEW r \in Senders
        PROVE  /\ pc'[r] # "client" => n'[r] >= 1
               /\ pc'[r] = "link" => last'[r] = wakeup_queue'
    BY <2>1, <2>2, <2>3 DEF GlobalInv, QueueInv
  <2> QED
    BY <2>5, <2>6, <2>7 DEF QueueInv
<1> QED
  BY <1>1, <1>2, <1>3, <1>4 DEF GlobalInv

\* cas_lock gives the ring to one sender, which reads tail there.
LEMMA LockRingStep ==
  ASSUME GlobalInv, NEW s \in Senders, LockRing(s)
  PROVE  GlobalInv'
<1> USE GlobalAssumption DEF LockRing, Goes
<1>1. TypeOK'
  BY DEF GlobalInv, TypeOK, Places, chanVars, queueVars
<1>2. LocksInv'
  BY DEF GlobalInv, TypeOK, LocksInv, InRing, InQueue, Free, chanVars, queueVars
<1>3. RingInv'
  BY DEF GlobalInv, TypeOK, LocksInv, InRing, RingInv, Storing, Kept, message, Free
<1>4. QueueInv'
  BY DEF GlobalInv, TypeOK, QueueInv, Announced, chanVars, queueVars
<1> QED
  BY <1>1, <1>2, <1>3, <1>4 DEF GlobalInv

\* The first of the two stores: the slot is filled or tail goes up.
LEMMA FirstStoreStep ==
  ASSUME GlobalInv, NEW s \in Senders, FirstStore(s)
  PROVE  GlobalInv'
<1> USE GlobalAssumption DEF FirstStore, Goes
<1>1. TypeOK'
  <2>1. message(s) \in Messages
    BY DEF GlobalInv, TypeOK, QueueInv, message, Messages
  <2>2. at[s] % Size \in 0 .. Size - 1
    BY PlaceInRing DEF GlobalInv, TypeOK
  <2>3. CASE StoreSlot(s)
    BY <2>1, <2>2, <2>3 DEF GlobalInv, TypeOK, Places, StoreSlot, queueVars
  <2>4. CASE StoreTail(s)
    BY <2>4 DEF GlobalInv, TypeOK, Places, StoreTail, queueVars
  <2> QED
    BY <2>3, <2>4
<1>2. LocksInv'
  BY DEF GlobalInv, TypeOK, LocksInv, InRing, InQueue, Free, chanVars, queueVars
<1>3. RingInv'
  <2>1. /\ pc[s] = "store" /\ pc'[s] = "stored" /\ at' = at /\ log' = log
        /\ tail = Len(log) /\ at[s] = tail /\ Kept(0) /\ tail \in Nat
        /\ message(s)' = message(s)
    BY DEF GlobalInv, TypeOK, RingInv, message
  <2>2. \A r \in Senders : r # s => ~Storing(r)'
    BY DEF GlobalInv, TypeOK, LocksInv, InRing, Storing
  <2>3. CASE StoreSlot(s)
    <3>1. at[s] % Size \in 0 .. Size - 1
      BY <2>1, PlaceInRing
    <3>2. tail' = tail /\ slots' = [slots EXCEPT ![at[s] % Size] = message(s)]
      BY <2>3 DEF StoreSlot
    <3>3. slots'[at[s] % Size] = message(s)
      BY <3>1, <3>2 DEF GlobalInv, TypeOK
    <3>4. ASSUME NEW i \in 1 .. Len(log), i + Size > Len(log) + 1
          PROVE  slots'[(i - 1) % Size] = log[i]
      <4> DEFINE j == i - 1
      <4>0. j \in Nat /\ at[s] \in Nat /\ j < at[s] /\ at[s] < j + Size
        BY <2>1, <3>4
      <4> HIDE DEF j
      <4>1. j % Size # at[s] % Size
        BY <4>0, PlacesDiffer
      <4>2. j % Size \in 0 .. Size - 1
        BY <4>0, PlaceInRing
      <4>3. slots[(i - 1) % Size] = log[i]
        BY <2>1, <3>4 DEF Kept
      <4> QED
        BY <3>1, <3>2, <4>1, <4>2, <4>3 DEF GlobalInv, TypeOK, j
    <3> QED
      BY <2>1, <2>2, <3>2, <3>3, <3>4 DEF RingInv, Storing, Kept
  <2>4. CASE StoreTail(s)
    BY <2>1, <2>2, <2>4 DEF RingInv, Storing, Kept, StoreTail
  <2> QED
    BY <2>3, <2>4
<1>4. QueueInv'
  BY DEF GlobalInv, TypeOK, QueueInv, Announced, chanVars, queueVars
<1> QED
  BY <1>1, <1>2, <1>3, <1>4 DEF GlobalInv

\* The second store completes the message.
LEMMA SecondStoreStep ==
  ASSUME GlobalInv, NEW s \in Senders, SecondStore(s)
  PROVE  GlobalInv'
<1> USE GlobalAssumption DEF SecondStore, Goes
<1>1. TypeOK'
  <2>1. message(s) \in Messages
    BY DEF GlobalInv, TypeOK, QueueInv, message, Messages
  <2>2. at[s] % Size \in 0 .. Size - 1
    BY PlaceInRing DEF GlobalInv, TypeOK
  <2>3. log' \in Seq(Messages)
    BY <2>1 DEF GlobalInv, TypeOK
  <2>4. CASE tail = at[s]
    BY <2>3, <2>4 DEF GlobalInv, TypeOK, Places, StoreTail, queueVars
  <2>5. CASE tail # at[s]
    BY <2>1, <2>2, <2>3, <2>5 DEF GlobalInv, TypeOK, Places, StoreSlot, queueVars
  <2> QED
    BY <2>4, <2>5
<1>2. LocksInv'
  BY DEF GlobalInv, TypeOK, LocksInv, InRing, InQueue, Free, chanVars, queueVars
<1>3. RingInv'
  <2> DEFINE place == at[s] % Size
  <2>1. /\ pc[s] = "stored" /\ pc'[s] = "unlock"
        /\ at[s] = Len(log) /\ Kept(1) /\ at[s] \in Nat
        /\ \/ tail = at[s] /\ slots[place] = message(s)
           \/ tail = at[s] + 1
    BY DEF GlobalInv, TypeOK, RingInv
  <2>2. \A r \in Senders : ~Storing(r)'
    BY DEF GlobalInv, TypeOK, LocksInv, InRing, Storing
  <2>3. place \in 0 .. Size - 1
    BY <2>1, PlaceInRing
  <2>4. /\ log' = Append(log, message(s)) /\ Len(log') = Len(log) + 1
        /\ log'[Len(log) + 1] = message(s)
        /\ \A i \in 1 .. Len(log) : log'[i] = log[i]
    BY DEF GlobalInv, TypeOK
  <2>5. tail' = Len(log')
    BY <2>1, <2>4 DEF StoreSlot, StoreTail
  <2>6. slots'[place] = message(s)
    BY <2>1, <2>3 DEF StoreSlot, StoreTail, GlobalInv, TypeOK
  <2>7. \A j \in 0 .. Size - 1 : j # place => slots'[j] = slots[j]
    BY <2>3 DEF StoreSlot, StoreTail, GlobalInv, TypeOK
  <2>8. ASSUME NEW i \in 1 .. Len(log'), i + Size > Len(log')
        PROVE  slots'[(i - 1) % Size] = log'[i]
    <3>1. CASE i = Len(log) + 1
      BY <2>1, <2>4, <2>6, <3>1
    <3>2. CASE i \in 1 .. Len(log)
      <4> DEFINE j == i - 1
      <4>0. j \in Nat /\ at[s] \in Nat /\ j < at[s] /\ at[s] < j + Size
        BY <2>1, <2>4, <2>8, <3>2
      <4> HIDE DEF j
      <4>1. j % Size # place
        BY <4>0, PlacesDiffer
      <4>2. j % Size \in 0 .. Size - 1
        BY <4>0, PlaceInRing
      <4>3. slots[(i - 1) % Size] = log[i]
        BY <2>1, <2>4, <2>8, <3>2 DEF Kept
      <4> QED
        BY <2>4, <2>7, <3>2, <4>1, <4>2, <4>3 DEF j
    <3> QED
      BY <2>1, <2>4, <3>1, <3>2
  <2> HIDE DEF place
  <2> QED
    BY <2>1, <2>2, <2>4, <2>5, <2>8 DEF RingInv, Storing, Kept
<1>4. QueueInv'
  BY DEF GlobalInv, TypeOK, QueueInv, Announced, queueVars
<1> QED
  BY <1>1, <1>2, <1>3, <1>4 DEF GlobalInv

\* cas_unlock leaves the ring as it is.
LEMMA UnlockRingStep ==
  ASSUME GlobalInv, NEW s \in Senders, UnlockRing(s)
  PROVE  GlobalInv'
<1> USE GlobalAssumption DEF UnlockRing, Goes
<1>1. TypeOK'
  BY DEF GlobalInv, TypeOK, Places, chanVars, queueVars
<1>2. LocksInv'
  BY DEF GlobalInv, TypeOK, LocksInv, InRing, InQueue, Free, chanVars, queueVars
<1>3. RingInv'
  BY DEF GlobalInv, TypeOK, RingInv, Storing, Kept, message, chanVars, queueVars
<1>4. QueueInv'
  BY DEF GlobalInv, TypeOK, QueueInv, Announced, chanVars, queueVars
<1> QED
  BY <1>1, <1>2, <1>3, <1>4 DEF GlobalInv

\* cas_lock gives the wakeup queue to one sender.
LEMMA LockQueueStep ==
  ASSUME GlobalInv, NEW s \in Senders, LockQueue(s)
  PROVE  GlobalInv'
<1> USE GlobalAssumption DEF LockQueue, Goes
<1>1. TypeOK'
  BY DEF GlobalInv, TypeOK, Places, chanVars, queueVars
<1>2. LocksInv'
  BY DEF GlobalInv, TypeOK, LocksInv, InRing, InQueue, Free, chanVars, queueVars
<1>3. RingInv'
  BY DEF GlobalInv, TypeOK, RingInv, Storing, Kept, message, chanVars, queueVars
<1>4. QueueInv'
  BY DEF GlobalInv, TypeOK, QueueInv, Announced, chanVars, queueVars
<1> QED
  BY <1>1, <1>2, <1>3, <1>4 DEF GlobalInv

\* The sender that has the lock finds the end of the queue.
LEMMA EnqueueStep ==
  ASSUME GlobalInv, NEW s \in Senders, Enqueue(s)
  PROVE  GlobalInv'
<1> USE GlobalAssumption DEF Enqueue, Goes
<1>1. TypeOK'
  BY DEF GlobalInv, TypeOK, Places, chanVars, queueVars
<1>2. LocksInv'
  BY DEF GlobalInv, TypeOK, LocksInv, InRing, InQueue, Free, chanVars, queueVars
<1>3. RingInv'
  BY DEF GlobalInv, TypeOK, RingInv, Storing, Kept, message, chanVars, queueVars
<1>4. QueueInv'
  BY DEF GlobalInv, TypeOK, QueueInv, Announced, chanVars, queueVars
<1> QED
  BY <1>1, <1>2, <1>3, <1>4 DEF GlobalInv

\* The wrap is linked to an end that is still the end.
LEMMA LinkStep ==
  ASSUME GlobalInv, NEW s \in Senders, Link(s)
  PROVE  GlobalInv'
<1> USE GlobalAssumption DEF Link, Goes
<1>1. TypeOK'
  <2>1. message(s) \in Messages
    BY DEF GlobalInv, TypeOK, QueueInv, message, Messages
  <2>2. wakeup_queue' \in Seq(Messages)
    BY <2>1 DEF GlobalInv, TypeOK
  <2>3. << >> \in Seq(Messages)
    OBVIOUS
  <2> QED
    BY <2>2, <2>3 DEF GlobalInv, TypeOK, Places, chanVars
<1>2. LocksInv'
  BY DEF GlobalInv, TypeOK, LocksInv, InRing, InQueue, Free, chanVars, queueVars
<1>3. RingInv'
  BY DEF GlobalInv, TypeOK, RingInv, Storing, Kept, message, chanVars, queueVars
<1>4. QueueInv'
  <2>1. /\ pc[s] = "link" /\ pc'[s] = "wq_unlock" /\ n' = n
        /\ \A r \in Senders : r # s => pc'[r] = pc[r] /\ pc'[r] # "link"
    BY DEF GlobalInv, TypeOK, LocksInv, InQueue
  <2>2. /\ Len(wakeup_queue') = Len(wakeup_queue) + 1
        /\ wakeup_queue'[Len(wakeup_queue) + 1] = message(s)
        /\ \A j \in 1 .. Len(wakeup_queue) : wakeup_queue'[j] = wakeup_queue[j]
    BY <2>1 DEF GlobalInv, TypeOK, QueueInv
  <2>3. Announced(<< s, n[s] >>)'
    <3>1. Len(wakeup_queue) + 1 \in 1 .. Len(wakeup_queue')
      BY <2>2 DEF GlobalInv, TypeOK
    <3> QED
      BY <2>1, <2>2, <3>1 DEF Announced, message
  <2>4. ASSUME NEW m, Announced(m)
        PROVE  Announced(m)'
    BY <2>2, <2>4 DEF GlobalInv, TypeOK, Announced
  <2>5. ASSUME NEW r \in Senders, NEW i \in 1 .. MaxSends,
               i < n[r] \/ (i = n[r] /\ pc'[r] \in {"client", "wq_unlock"})
        PROVE  Announced(<< r, i >>)'
    <3>1. CASE r = s /\ i = n[s]
      BY <2>3, <3>1
    <3>2. CASE ~(r = s /\ i = n[s])
      <4>1. Announced(<< r, i >>)
        BY <2>1, <2>5, <3>2 DEF GlobalInv, QueueInv
      <4> QED
        BY <4>1, <2>4
    <3> QED
      BY <3>1, <3>2
  <2>6. \A r \in Senders : pc'[r] # "client" => n[r] >= 1
    BY <2>1 DEF GlobalInv, QueueInv
  <2> QED
    BY <2>1, <2>5, <2>6 DEF QueueInv
<1> QED
  BY <1>1, <1>2, <1>3, <1>4 DEF GlobalInv

\* cas_unlock leaves the queue as it is.
LEMMA UnlockQueueStep ==
  ASSUME GlobalInv, NEW s \in Senders, UnlockQueue(s)
  PROVE  GlobalInv'
<1> USE GlobalAssumption DEF UnlockQueue, Goes
<1>1. TypeOK'
  BY DEF GlobalInv, TypeOK, Places, chanVars, queueVars
<1>2. LocksInv'
  BY DEF GlobalInv, TypeOK, LocksInv, InRing, InQueue, Free, chanVars, queueVars
<1>3. RingInv'
  BY DEF GlobalInv, TypeOK, RingInv, Storing, Kept, message, chanVars, queueVars
<1>4. QueueInv'
  BY DEF GlobalInv, TypeOK, QueueInv, Announced, chanVars, queueVars
<1> QED
  BY <1>1, <1>2, <1>3, <1>4 DEF GlobalInv

\* The receiver's kernel thread and lwt_kthd_create change none of it.
LEMMA OthersKeep ==
  ASSUME GlobalInv,
         UNCHANGED << pc, n, at, last, tail, slots, rb_occupied, queueVars, log >>
  PROVE  GlobalInv'
<1>1. TypeOK'
  BY DEF GlobalInv, TypeOK, queueVars
<1>2. LocksInv' /\ RingInv'
  BY DEF GlobalInv, LocksInv, InRing, InQueue, RingInv, Storing, Kept, message, queueVars
<1>3. QueueInv'
  BY DEF GlobalInv, QueueInv, Announced, queueVars
<1> QED
  BY <1>1, <1>2, <1>3 DEF GlobalInv

\* The channel is empty and its locks are free at first.
LEMMA InitGlobalInv == Init => GlobalInv
<1> SUFFICES ASSUME Init
             PROVE  GlobalInv
  OBVIOUS
<1>1. << >> \in Seq(Messages) /\ Len(<< >>) = 0
  OBVIOUS
<1>2. TypeOK
  BY <1>1, GlobalAssumption DEF Init, TypeOK, Places
<1>3. LocksInv /\ RingInv
  BY <1>1, GlobalAssumption DEF Init, LocksInv, InRing, InQueue, RingInv, Storing, Kept
<1>4. QueueInv
  BY GlobalAssumption DEF Init, QueueInv
<1> QED
  BY <1>2, <1>3, <1>4 DEF GlobalInv

\* Every step keeps the invariant.
LEMMA NextGlobalInv == GlobalInv /\ [Next]_vars => GlobalInv'
<1> SUFFICES ASSUME GlobalInv, [Next]_vars
             PROVE  GlobalInv'
  OBVIOUS
<1>1. ASSUME NEW s \in Senders, lwt_kthd_create(s)
      PROVE  GlobalInv'
  BY <1>1, OthersKeep DEF lwt_kthd_create, chanVars
<1>2. ASSUME NEW s \in Senders, lwt_sync_snd(s) \/ SndStep(s)
      PROVE  GlobalInv'
  BY <1>2, SndStarts, LockRingStep, FirstStoreStep, SecondStoreStep, UnlockRingStep,
     LockQueueStep, EnqueueStep, LinkStep, UnlockQueueStep
  DEF SndStep
<1>3. CASE HomeStep
  BY <1>3, OthersKeep DEF HomeStep, lwt_sync_rcv, Check, Take, Block, Yield, FunctionReturns,
    KthdBlocks, senderVars
<1>4. CASE UNCHANGED vars
  BY <1>4, OthersKeep DEF vars, chanVars
<1> QED
  BY <1>1, <1>2, <1>3, <1>4 DEF Next

-----------------------------------------------------------------------------
(* The theorems.                                                            *)

\* cas_lock around the two stores of lwt_sync_snd: whatever is preempted where,
\* and in whichever order the compiler puts the stores, tail counts the
\* messages and the ring keeps the last Size of them.
THEOREM RingWhole == Spec => []RingKeepsMessages
<1>1. GlobalInv => RingKeepsMessages
  BY DEF GlobalInv, RingInv, Storing, Kept, RingKeepsMessages
<1> QED
  BY <1>1, InitGlobalInv, NextGlobalInv, PTL DEF Spec

\* cas_lock around list_head_add_d: no wrap is lost from the wakeup queue.
THEOREM NoWrapLost == Spec => []EveryMessageAnnounced
<1>1. GlobalInv => EveryMessageAnnounced
  BY DEF GlobalInv, QueueInv, Announced, EveryMessageAnnounced
<1> QED
  BY <1>1, InitGlobalInv, NextGlobalInv, PTL DEF Spec

\* Of a set whose members are all the same, the number of members is the lock
\* word that says whether there is one.
LEMMA CountOfOne ==
  ASSUME NEW S, \A s, r \in S : s = r, NEW lock \in 0 .. 1, lock = 1 <=> S # {}
  PROVE  lock = Cardinality(S)
<1>1. CASE S = {}
  BY <1>1, FS_EmptySet
<1>2. CASE S # {}
  <2>1. PICK s \in S : S = {s}
    BY <1>2
  <2>2. Cardinality(S) = 1
    BY <2>1, FS_Singleton
  <2> QED
    BY <1>2, <2>2
<1> QED
  BY <1>1, <1>2

\* cas_lock and cas_unlock: wherever senders are preempted, a taken lock has one
\* holder, who is on the way to give it back.
THEOREM LocksHeld == Spec => []LocksHaveHolders
<1>1. GlobalInv => LocksHaveHolders
  <2> SUFFICES ASSUME GlobalInv
               PROVE  LocksHaveHolders
    OBVIOUS
  <2> DEFINE R == {s \in Senders : InRing(s)}
             Q == {s \in Senders : InQueue(s)}
  <2>1. /\ \A s, r \in R : s = r
        /\ rb_occupied \in 0 .. 1 /\ (rb_occupied = 1 <=> R # {})
    BY DEF GlobalInv, TypeOK, LocksInv
  <2>2. /\ \A s, r \in Q : s = r
        /\ wq_occupied \in 0 .. 1 /\ (wq_occupied = 1 <=> Q # {})
    BY DEF GlobalInv, TypeOK, LocksInv
  <2>3. /\ R = {s \in Senders : pc[s] \in {"store", "stored", "unlock"}}
        /\ Q = {s \in Senders : pc[s] \in {"enqueue", "link", "wq_unlock"}}
    BY DEF InRing, InQueue
  <2> HIDE DEF R, Q
  <2>4. rb_occupied = Cardinality(R)
    BY <2>1, CountOfOne
  <2>5. wq_occupied = Cardinality(Q)
    BY <2>2, CountOfOne
  <2> QED
    BY <2>3, <2>4, <2>5 DEF LocksHaveHolders
<1> QED
  BY <1>1, InitGlobalInv, NextGlobalInv, PTL DEF Spec

-----------------------------------------------------------------------------
(* The receiver's kernel thread.                                            *)

\* Its lists are sound and complete, and once the function of the main thread
\* has returned nobody else gets the processor.
HomeInv ==
  /\ sched \in Sched /\ ListsSound(sched) /\ NoneMissing(sched)
  /\ main # "function" => sched.current_thread = MainThread
  /\ main = "sl_thd_block" => sched.queue["run_queue"] = << MainThread >>

LEMMA InitHomeInv == Init => HomeInv
<1> SUFFICES ASSUME Init
             PROVE  HomeInv
  OBVIOUS
<1> DEFINE s == [SchedInit.state EXCEPT ![Receiver] = "LWT_RUNNING"]
           l == [SchedInit EXCEPT !.state = s]
<1>1. /\ SchedInit \in Sched /\ ListsSound(SchedInit) /\ NoneMissing(SchedInit)
      /\ Receiver \in Threads /\ Receiver # MainThread
      /\ SchedInit.current_thread = MainThread /\ SchedInit.state[MainThread] = "LWT_RUNNING"
      /\ SchedInit.state[Receiver] = "UNUSED" /\ MainThread \in Threads
  BY SchedInitSound, GlobalAssumption
<1>2. \A u \in Threads : s[u] = IF u = Receiver THEN "LWT_RUNNING" ELSE SchedInit.state[u]
  BY <1>1 DEF Sched
<1>3. /\ l \in Sched /\ l.queue = SchedInit.queue /\ l.block_for = SchedInit.block_for
      /\ l.current_thread = MainThread /\ l.state = s
  <2>1. s \in [Threads -> States]
    BY <1>1 DEF Sched, States
  <2> HIDE DEF s
  <2> QED
    BY <1>1, <2>1 DEF Sched
<1>4. sched = ToEnd(l, Receiver) /\ main = "function"
  BY DEF Init, SchedCreate
<1> HIDE DEF l, s
<1>5. PlacedBut(l, Receiver) /\ IsRunnable(l, Receiver) /\ OnePlace(l.queue)
  BY <1>1, <1>2, <1>3 DEF ListsSound, Placed, PlacedBut, IsRunnable
<1>6. /\ sched \in Sched /\ Placed(sched) /\ sched.state = s /\ sched.current_thread = MainThread
      /\ sched.block_for = l.block_for
      /\ \A u : OnList(sched.queue, "run_queue", u) <=>
                  OnList(SchedInit.queue, "run_queue", u) \/ u = Receiver
  BY <1>1, <1>3, <1>4, <1>5, ToRunQueueSound
<1>7. \A u : OnList(sched.queue, "recycle_queue", u) <=>
               OnList(SchedInit.queue, "recycle_queue", u) /\ u # Receiver
  BY <1>1, <1>3, <1>4, <1>5, ToRunQueueView
<1>8. \A c \in Chans : \A u : OnList(sched.queue, c, u) <=>
                                OnList(SchedInit.queue, c, u) /\ u # Receiver
  BY <1>1, <1>3, <1>4, <1>5, ToRunQueueView
<1>9. ListsSound(sched)
  BY <1>1, <1>2, <1>6 DEF ListsSound, CurrentRuns
<1>10. NoneMissing(sched)
  BY <1>1, <1>2, <1>3, <1>6, <1>7, <1>8 DEF NoneMissing, IsRunnable
<1> QED
  BY <1>4, <1>6, <1>9, <1>10 DEF HomeInv

LEMMA NextHomeInv == HomeInv /\ [Next]_vars => HomeInv'
<1> SUFFICES ASSUME HomeInv, [Next]_vars
             PROVE  HomeInv'
  OBVIOUS
<1>0. /\ sched \in Sched /\ ListsSound(sched) /\ Placed(sched) /\ NoneMissing(sched)
      /\ Receiver \in Threads /\ MainThread \in Threads /\ Receiver # MainThread
  BY GlobalAssumption DEF HomeInv, ListsSound
<1>1. CASE Block
  <2> DEFINE m == block_thread(sched, "BLOCKED_RECEIVING", NULL)
  <2>1. sched.current_thread = Receiver /\ sched' = m /\ main' = main
    BY <1>1 DEF Block, ReceiverRuns, RcvBlocks
  <2>2. m \in Sched /\ ListsSound(m) /\ NoneMissing(m)
    BY <1>0, <2>1, BlockSound, BlockView DEF BlockStatus
  <2> HIDE DEF m
  <2> QED
    BY <1>0, <2>1, <2>2 DEF HomeInv
<1>2. CASE Yield
  <2> DEFINE m == lwt_yield_null(sched)
  <2>1. sched.current_thread \in Threads /\ sched' = m /\ main' = main /\ main = "function"
    BY <1>0, <1>2 DEF Yield, ReceiverRuns, MainRuns, HomeInv
  <2>2. m \in Sched /\ ListsSound(m) /\ NoneMissing(m)
    BY <1>0, <2>1, YieldNullSound, YieldNullView, ReorderedComplete
  <2> HIDE DEF m
  <2> QED
    BY <2>1, <2>2 DEF HomeInv
<1>3. CASE FunctionReturns
  BY <1>3 DEF FunctionReturns, MainRuns, HomeInv
<1>4. CASE KthdBlocks
  <2>1. /\ sched' = sched /\ sched.current_thread = MainThread
        /\ Len(sched.queue["run_queue"]) = 1
    BY <1>4 DEF KthdBlocks, Trampoline, MainRuns
  <2>2. PICK q \in Seq(Threads) : q = sched.queue["run_queue"]
    BY <1>0, HeadsDistinct DEF Sched
  <2>3. PICK i \in DOMAIN q : q[i] = MainThread
    BY <1>0, <2>1, <2>2, SchedAssumption DEF ListsSound, CurrentRuns, OnList
  <2>4. q = << MainThread >>
    BY <2>1, <2>2, <2>3
  <2> QED
    BY <2>1, <2>2, <2>4 DEF HomeInv
<1>5. CASE UNCHANGED << sched, main >>
  BY <1>5 DEF HomeInv
<1>6. ASSUME NEW s \in Senders, lwt_kthd_create(s) \/ lwt_sync_snd(s) \/ SndStep(s)
      PROVE  UNCHANGED << sched, main >>
  BY <1>6 DEF lwt_kthd_create, lwt_sync_snd, SndStep, LockRing, FirstStore, SecondStore,
     UnlockRing, LockQueue, Enqueue, Link, UnlockQueue, homeVars
<1>7. lwt_sync_rcv \/ Check \/ Take \/ UNCHANGED vars => UNCHANGED << sched, main >>
  BY DEF lwt_sync_rcv, Check, Take, vars, homeVars
<1> QED
  BY <1>1, <1>2, <1>3, <1>4, <1>5, <1>6, <1>7 DEF Next, HomeStep

\* The trampoline counts the run queue before sl_thd_block: nobody who could
\* run is put to sleep with the kernel thread.
THEOREM NobodySleepsWith == Spec => []SleepsAlone
<1>1. HomeInv => SleepsAlone
  <2> SUFFICES ASSUME HomeInv
               PROVE  SleepsAlone
    OBVIOUS
  <2>1. Receiver \in Threads /\ Receiver # MainThread
    BY GlobalAssumption
  <2>2. OnList(sched.queue, "run_queue", Receiver) <=> IsRunnable(sched, Receiver)
    BY <2>1 DEF HomeInv, ListsSound, Placed, NoneMissing
  <2>3. ASSUME main = "sl_thd_block"
        PROVE  ~OnList(sched.queue, "run_queue", Receiver)
    BY <2>1, <2>3 DEF HomeInv, OnList
  <2> QED
    BY <2>2, <2>3 DEF SleepsAlone, HomeInv, IsRunnable
<1> QED
  BY <1>1, InitHomeInv, NextHomeInv, PTL DEF Spec
=============================================================================
