# Light-weight thread library: TLA+ models, checks and proofs

The library (`src/lwt.c`, `src/lwt_chl.c`, `src/lwt.h`, `src/lwt_list.h`) gives
one kernel thread many cooperative threads that fork, join and talk through
channels and channel groups.  On Composite it also connects the threads of
several kernel threads through global channels, on top of the scheduling library
`sl.c` and the allocator `umalloc.c`.

This directory holds models of all of these parts, checked by TLC, and proofs of
their safety properties, checked by TLAPS; only those that are about particular test programs
are not proved.

## 1. The system

| Component | State | Operations | Status |
|---|---|---|---|
| Linked lists (`lwt_list.h`) | `n`, `p` of every head and every embedded node | `list_ll_add`, `list_ll_rem`, `list_ll_init` and the macros on them | modelled, proved |
| Threads and scheduler (`lwt.c`) | `struct _lwt_t`: `state`, `block_for`, `parent`, `nojoin`, `message_data`, `chl`, `now_rcving`; `struct _kthd_info`: run queue, recycle queue, current thread, four counters | `lwt_create`, `lwt_join`, `lwt_die`, `lwt_yield`, `__lwt_schedule`, `__block_thread`, `__resume_thread` | modelled, proved |
| Local channels (`lwt_chl.c`) | `struct _lwt_channel`: `receiver`, `snd_cnt`, ring and `size`, `sender_queue`, `ready`, `cgroup` | `lwt_chan`, `lwt_snd`, `lwt_rcv`, `lwt_snd_chan`, `lwt_rcv_chan`, `lwt_create_chan`, `lwt_chan_deref` | modelled, proved |
| Channel groups (`lwt_chl.c`) | `struct _lwt_cgrp`: `owner`, `blocked`, list of channels | `lwt_cgrp`, `_add`, `_rem`, `_free`, `_wait` | modelled, proved |
| Tests (`main3.c`, `test_file` of `unit_schedlib.c`) | scripts, `sched`, `curr`, `sndrcv_cnt`, `maxcnt` | the calls of all tests, and their asserts but null checks of handles | modelled |
| `lwt_info`, marks | the counters; `mark` | `lwt_info`, `lwt_chan_mark_set`, `lwt_chan_mark_get` | through the tests' asserts |
| Global channels (`lwt_chl.c`) | ring under `rb_occupied`; `wakeup_queue` under `wq_occupied` | `lwt_sync_snd`, `lwt_sync_rcv`, `cas_lock`, `cas_unlock` | modelled, safety proved |
| Kernel threads | `kthds[]`, run queue | `lwt_kthd_create`, `lwt_kthd_trampline`; `lwt_snd_thd`, `lwt_rcv_thd` | the first two |
| Scheduling library (`sl.c`, `sl.h`) | `lock` (owner, contention), thread states, `current_kthd`, scheduler tokens | `sl_cs_enter`, `sl_cs_exit`, `sl_cs_exit_schedule`, `sl_thd_block`, `sl_thd_wakeup`, `sl_thd_yield`, `sl_thd_alloc`, `sl_thd_param_set`, `sl_sched_loop`; `sl_thd_free`, timeouts | modelled but the last two, safety proved |
| Allocator (`umalloc.c`) | circular free list, `freep` | `umalloc`, `ufree`, `morecore` | modelled, proved |
| Printing, identifiers, build scripts | | | left out: no logic |

**How they interact.**  Every thread and every channel embeds one list node.  A
thread's node is on the run queue, on the sender queue of a channel it is blocked
sending on, on the recycle queue, or nowhere (blocked receiving); moving it is what
all operations consist of.  Channels are the only synchronisation: a join is an
`lwt_rcv` on the child's own channel, a death is an `lwt_snd` on it.  A group is
connected to its channels by `chan->cgroup` and `chan->ready`; senders resume the
owner through `cgrp->owner` when `cgrp->blocked` is set.

**What is hard.**  Nothing is preempted inside a kernel thread, so one stretch of
code runs from one `__lwt_schedule` to the next; but each blocking call is two
stretches, with any number of calls by other threads in between, and the second
half acts on fields the first half left (`now_rcving`, `block_for`,
`cgrp->blocked`, `message_data`).  The state a function finds depends on long
sequences of legal calls.  Memory is recycled with its old contents.  Between kernel
threads everything is preempted, and what protects shared data is three hand-written
locks and the kernel's scheduler tokens.  PROJECT.json lists the hazards at their lines.

## 2. Modules

    LwtList          operators: a family of intrusive lists as sequences
    LwtSched         operators: scheduler states and the functions on them
    Lwt              the specification: threads, channels, groups
      LwtProps       its properties;  FifoChannels: what channels promise
        LwtProgram   programs of calls over Lwt, with asserts and fairness
    GlobalChan       global channels between kernel threads, over LwtSched
    LwtLinks         the n/p pointer code;  MCLwtLinks: it implements LwtList
    Sl               the scheduling library under preemption
    Umalloc          the allocator;  Heap: what an allocator promises
    MCLwt, MCLwtProgram   instances for TLC (the other modules are their own)
    LwtInv           what else has to be true for the properties of Lwt to be kept
    LwtSchedProofs <- LwtProofs <- LwtStepProofs <- LwtChanProofs   proofs about Lwt
    LwtLinksProofs, GlobalChanProofs, SlProofs, UmallocProofs       and the others

### LwtLinks and LwtList

`LwtLinks` has the four assignments of `list_ll_add` and the three of `list_ll_rem`
in their order, each on the memory the ones before left.  Its `Walk` is
`list_foreach`, cut off after as many steps as there are nodes and one.  `LwtList` is the users' view: `q[h]` is the sequence from
`head->n` on.  Two things of the source are easy to miss and kept: `list_rem` needs
no head and is harmless on an unlinked node; `list_head_append` links in front of
the *last* node (or as the only one), not at the end.

### LwtSched

The scheduling part of the state is one record, and each C function an operator from
record to record, so that callers compose them in the order of the code:
`__block_thread` is `block_thread`, ending in `lwt_yield_null`, ending in
`lwt_schedule`.  `__lwt_schedule` on an empty run queue takes the head for a thread;
the model then loses the processor (`current_thread = NULL`, no further step).

### Lwt

| Variable | Code |
|---|---|
| `sched` | `kthds[current_kthd]`, and `state`, `block_for` of the threads |
| `thd[t]` | the other fields of `struct _lwt_t` |
| `chan[c]`, `grp[g]`, `chl_list` | `struct _lwt_channel`, `struct _lwt_cgrp`; `live` while the block is allocated |
| `pc[t]`, `arg[t]` | the API function thread `t` was switched out in, and its argument |
| `made`, `event`, `refs`, `joined` | what client code knows: names, references, results |
| `delivered` | last value `lwt_rcv` returned, for the refinement |

One action is one stretch of code between two switches.  A call that may block is an
action for its first half (`lwt_snd`, `lwt_rcv`, `lwt_join`, `lwt_cgrp_wait`) and one
for what the thread does when it is dispatched again (`SndResumes`, `RcvResumes`,
`WaitResumes`, `JoinReturns`).  What follows `lwt_snd` or `lwt_rcv` in their callers
(the yield of `lwt_snd_chan`, the end of `lwt_die`, the count of `lwt_rcv_chan`, the
directed yield of `lwt_join`) belongs to the same action as the return: `AfterSnd`,
`RcvReturns`.

`Threads`, `Chans` and `Groups` are blocks of memory.  `lwt_create` takes the first
block of the recycle queue, or a new one, and leaves `now_rcving` and `block_for` as
they were; `lwt_chan` leaves `ready` and `cgroup` as they were, as `__init_chan` does.

*Client discipline.*  The code checks almost nothing, so the model says what clients
do (`Client` to `MayJoin` in `Lwt`; everything said here of "any client" is of one that keeps
to it): they name channels they know, send on those they hold a reference of,
receive on channels they are the receiver of, in a group or not, wait only on groups they own,
add to and remove from no group but their own, join a child once.  They do not send a channel
on while it is still on its way to somebody (`MayPass`), and the receiver of a channel takes it
out of its group before it leaves it (`MayDeref`), as `test_grpwait` does; otherwise `free`d memory
would stay in the list of the group, and the block that `__init_chan` leaves with its old
`cgroup` could be made a channel in a group nobody added it to: no run and no theorem
is about that.  Three further rules keep clients away
from the library's own defects (section 5); each can be switched off with `Careless`:
`deref_in_flight`, `leave_data` and `wait_after_rcv`.  The last is as wide as the defect and no
wider: a thread may wait on a group after `lwt_rcv` or `lwt_join` if nobody can send to it
any more on the channel it blocked on last (`Addressed`).  A child that nobody has joined
yet can: its last word would go to whoever `now_rcving` names.

*Abstractions.*  The ring is the sequence between `head` and `tail`.  Messages are
model values, or channels.  The main thread's own channel, made by `__initiate`, is
left out: only a parent could join on it.  `malloc` failures (`lwt_cgrp` returning
`LWT_NULL`) do not happen.  The polling branch of `__lwt_schedule` is dead code here:
`polling_flag` is only ever 0.

### LwtProgram

`Lwt` lets every client of the discipline call everything; `LwtProgram` restricts the threads to
scripts, as in `main3.c`, so that "this program ends" and "this assert holds" can be
stated.  A script may be interrupted by a bounded number of extra yields at any point.
`MCLwtProgram` holds the scripts of all tests of `main3.c` (`unit_schedlib.c` has copies
of them); which of them runs, and with which channel size, is chosen in the initial state
and at `lwt_chan`.  Loops of `ITER` rounds have two or three, groups have two channels.
The asserts of the tests are entries of the scripts: `IS_RESET`, return values of joins
and receives (also that of a join by another than the parent), queue lengths, the state of the
current thread, the marks of `test_grpwait`, its groups that are freed only when empty, the sum
and the filled buffer of `test_multisend`.  Left out are the asserts that a handle just made
is not null: allocation does not fail in `Lwt`.  Six kinds of them fix the order in which threads run, so they are
checked only as long as there was no extra yield (`assert_exact`).

### GlobalChan

One action is one access to memory that kernel threads share: `cas_lock` taken (a failed
`ps_cas` only retries), the two stores of `data_buffer[tail++ % size] = data` in either
order, the two steps of `list_head_add_d` on `wakeup_queue` (find the end, link to it).
The receiver shares its kernel thread with the main thread under the cooperative scheduler
of `LwtSched`; the main thread's function yields, as `test_high` does, or returns to
`lwt_kthd_trampline`.  Messages are pairs of a sender and a number.  The initial state is
`lwt1_test` after `set_chan_type`; senders are created by `lwt_kthd_create` afterwards.
`MaxPending` bounds how far the receiver may lag; it is larger than `Size`, so that
overwriting occurs.

### Sl

There is one processor.  It can be taken from a thread between any two accesses to
shared memory, and then goes to the scheduler thread, in `sl_sched_loop`; the scheduler
thread is not preempted by the timer.  `pc` and `ret` are the place in `sl_cs_enter`,
`sl_cs_exit`, the schedule function and the bodies of the calls.  The lock word is a
record of `owner` and `contention`.  A scheduler token is a Boolean: still accepted or
not.  `cos_sched_sync` makes it TRUE, any switch makes those of all threads FALSE, and
`cos_defswitch` under a FALSE one does nothing.  `tok` is the token of the critical
section, `stok` the one `sl_cs_exit_schedule_nospin_arg` takes before it chooses.  The
policy (`sl_mod_*`) is not in the repository: any thread that has been made ready may be
chosen, and the idle thread when there is none.  `cos_sched_rcv` reports no event.
`sl_thd_alloc` and `sl_thd_param_set` take no lock, as in the code, and are one step each.

With one processor and preemption only in favour of the scheduler thread, which goes on to
lend the owner its time, the compare-and-swap of `sl_cs_enter` always succeeds in the
reachable states; the retry is modelled all the same, and the read of the lock word and the
token are separate steps because a preemption between the two is what makes a hand-over
fail.

### Umalloc

An address counts units of `sizeof(Header)`.  `free` maps the header of each free block to
its `ptr` and `size`; `Walk` is the search from `freep`, so a block that is linked out of
order is not found.  `Freed` is `ufree` with its two merges in order, `Cut` the tail of the
first block that fits, `morecore` the pages for a request.  As in the code only the units
asked for are put under management; the rest of their pages is lost, and blocks of two calls
of `morecore` never touch.  `cos_page_bump_alloc` is not in the repository: it gives one page
behind the other until `MaxPages` are taken, and from then on none.  `morecore` asks for all
pages of a request and looks at the first result, so a request that finds the first page only
is entered whole (`Bumped`); addresses therefore go on for one more request (`LastUnit`)
behind the last page.  A processor that faults at a store there ends the behaviour early.  `Heap` is the client's
view: a block given out shares no unit with one still held.  Calls do not overlap: this is
the allocator of one kernel thread.

## 3. Runs

| Run | Instance | Shows |
|---|---|---|
| MCLwtThreads | 3 threads, 3 channels of size 1, up to 2 references each | fork, join, die, recycling, channels sent through channels, dereferenced and freed: `NobodyMisplaced`, `NobodyForgotten`, `CountersExact`, `LastWordFirst`, `ReceiversAwake`, `NoUseAfterFree`, `NoStaleEvent` in blocks used again, `ImplementsFifo` |
| MCLwtChannels | 3 threads, 4 channels, sizes 0 and 1, 2 messages, yields | `ImplementsFifo`, `SentIsPending`, `EventsVisible`, `ReceiversAwake`, `CountersExact` |
| MCLwtGroups | 3 threads, 4 channels, 1 group, yields | `OwnersAwake`, `BlockedOwnersWait`, `EventHonoured`, `GroupsPartition` and the thread properties |
| MCLwtLinks | 2 heads, 4 nodes | the pointer code implements the sequence operators |
| MCLwtProgram | eight scripts, sizes 0 to 2, up to 8 extra yields | the tests end (`Terminates`), as `IS_RESET` says (`Reset`), and their asserts hold (`AssertsHold`) |
| Sl | 2 kernel threads, scheduler, idle thread, one wakeup per block | `MutualExclusion`, `AssertionsHold`, `BlockedStayOut`, `KthdCurrent`, `NoLostWakeup`, `SectionLeft` |
| Umalloc | pages of 3 units, 5 pages, requests of 1, 3 and 4 units | `NothingLost`, `Coalesced`, `InsideUntilExhausted`, `ImplementsHeap` |
| GlobalChan | 2 senders, 2 messages each, size 2, at most 3 unread | `RingKeepsMessages`, `EveryMessageAnnounced`, `SleepsAlone`, `LocksHaveHolders` |
| ClaimSnd, ClaimCounters, ClaimWoken, ClaimGlobalRcv | smaller ones | refuted: section 5 |

The properties in words:

* `NobodyMisplaced`, `NobodyForgotten`: a thread is on the one list its state calls
  for; nothing is linked twice; the processor is lost only if nobody can run.
* `CountersExact`: `lwt_info` tells the truth.  It does not once groups are used
  (section 5), so the group runs do not check it, and `Reset` leaves out
  the script of `test_grpwait`.
* `LastWordFirst`: a block is recycled only after the parent has the last word.
* `ReceiversAwake`, `OwnersAwake`: no lost wakeup, in `lwt_rcv` and in `lwt_cgrp_wait`.
* `EventsVisible`, `NoStaleEvent`: `ready` is set exactly while there is a message.
* `EventHonoured`: after `lwt_cgrp_wait` returned a channel, `lwt_rcv` on it does not
  block, whatever other threads did in between.
* `BlockedOwnersWait`: senders that find `cgrp->blocked` set resume a thread that is
  inside `lwt_cgrp_wait` on that group.
* `ImplementsFifo`: buffer, blocked senders and the message in a receiver's hands
  together are one queue (`Pending`): the detailed channels implement `FifoChannels`.
* `NoUseAfterFree`: nothing reaches a freed channel.
* `AssertsHold`: what the tests assert, however extra yields are placed.
* `MutualExclusion`, `SectionLeft`: one thread at a time has the scheduler's data, and gives
  them back wherever it is preempted.
* `BlockedStayOut`: the choice of the next thread is used after the lock is given up; the
  token refuses it when it is out of date, so no blocked thread ever runs client code.
* `KthdCurrent`: `current_kthd`, written before a switch that may fail, is right whenever
  client code, all of `lwt.c`, reads it.
* `NoLostWakeup`: a thread that was woken since its last block does not stay blocked.
* `NothingLost`, `Coalesced`: free and held blocks tile what `morecore` obtained, and no two
  free ones touch; `ImplementsHeap`: no unit is handed out twice.
* `InsideUntilExhausted`: blocks lie in the pages taken, until these run out.  After that
  they need not (section 5).
* `RingKeepsMessages`: outside the lock `tail` counts the messages, and the ring has the last
  `size` of them: what is lost is lost to a full ring, not to a race.
* `EveryMessageAnnounced`: each message sent has its wrap in the receiver's wakeup queue.
* `SleepsAlone`: the trampoline puts its kernel thread to sleep with nobody else in its run
  queue.
* `LocksHaveHolders`: a lock word is 1 exactly while one sender, which does not wait for the other
  lock, is inside; a sender spins in `cas_lock` only while there is somebody to give it back.

**Bounds.**  Three cooperative threads are the least with which a directed yield, an append before
the last, two blocked senders on one channel, and a third party between two halves of
a call occur; four channels are two threads' own and two to use.  Sizes 0 and 1 are the
synchronous channel and a ring that is empty, full or, with a blocked sender, refilled.
`MaxRefs` bounds the references of a channel; `MaxDrift` stops counting below
-`MaxDrift` where a counter falls without end (section 5), and nothing but the counters
themselves depends on it.  Symmetry is used only in runs of safety properties.  MCLwtThreads
has no `lwt_yield`, which would multiply its states; yields of three threads are in the
runs on channels, groups and programs.  `lwt_chan_deref` on four
channels and two messages is out of reach, so recycled channels are in MCLwtThreads only: of its three
blocks each thread but the main one takes one for its own channel, so that the next channels
are made in recycled ones.
Deadlock is not checked in these three runs: a set of
threads that all wait for each other is something clients can write; nor in GlobalChan,
where all kernel threads may come to their end and the receiver's be asleep.  The program
run has an explicit `Stop` step and checks termination; Sl, Umalloc and MCLwtLinks check
deadlock.

In Sl two client threads and the scheduler thread give every pair of contenders and an
owner that neither of them is; `MaxAhead = 1` is the one wakeup per block that the
code can handle (ClaimWoken has two).  In Umalloc a block of 1 unit is cut from one of 3, a
request of 3 units fills its page exactly, one of 4 takes two pages, and 5 pages are enough
for blocks in front of, behind and between others.  In GlobalChan three unread messages in a
ring of two overwrite one, and two senders of two messages meet at each lock.

**Fairness.**  `LwtProgram` assumes weak fairness of the whole next-state relation: there is
one processor, it executes the current thread, which does not stop by itself; which
thread is current is decided by the run queue, so no fairness between threads is assumed.
`Sl` assumes that the timer goes on ticking (weak fairness of `Preempt`), and that a thread
that is given the processor again and again executes an instruction of the library
(strong fairness of `Library(t)`: the tick is longer than an instruction); nothing is assumed
of client code or of the policy's choices.  Nothing is assumed for `GlobalChan`, and nothing
live is said of it: the code makes kernel threads with fixed priorities (`lwt_chl.c:477`), and a
preferred thread that spins in `cas_lock` keeps the holder out for ever.  Only ClaimGlobalRcv has
fairness (`FairSpec`, every kernel thread that can run is dispatched), more than the code
gives: what fails even so fails in the code.

## 4. Proofs

All theorems hold for any values of the constants that meet the named assumptions
(`SchedAssumption`, `LwtAssumption`, `LinksAssumption`, `SlAssumption`, `GlobalAssumption`,
`PageAssumption`, `RequestAssumption`: special values are distinct from the others, sizes are
natural numbers, the size of a global channel and of a page is not 0, the nodes of the lists are
finitely many).  Some theorems have a
hypothesis besides; each is a rule for clients without which the property is false.

### Threads, channels and groups

For any sets of threads, channels, groups and messages:

| Theorem | Property | Hypothesis |
|---|---|---|
| `TypesHold` | `TypeOK` | |
| `ThreadsWellPlaced` | `NobodyMisplaced` | |
| `OnlyWaitersResumed` | `BlockedOwnersWait` | |
| `GroupsAgree` | `GroupsPartition` | |
| `MessagesShown` | `EventsVisible` | |
| `NoLostMessage` | `ReceiversAwake` | |
| `NoLostEvent` | `OwnersAwake` | |
| `InfoCounts` | `CountersExact` | `lwt_cgrp_wait` is not called |
| `FreedIsUnused` | `NoUseAfterFree` | not `deref_in_flight` |
| `ThreadsRemembered` | `NobodyForgotten` | not `deref_in_flight` |
| `EventsHold` | `NoStaleEvent` | nor `leave_data` |
| `EventsAreHonoured` | `EventHonoured` | nor `leave_data` |
| `NobodyDiesUnjoined` | `LastWordFirst` | not `deref_in_flight`, not `wait_after_rcv` |
| `ChannelsAreFifo` | `ImplementsFifo` | the same |
| `SentStaysPending` | `SentIsPending` | the same |

"Not x" means `"x" \notin Careless`: clients keep that rule.  A channel in flight counts as no
reference, so one whose last reference is dropped is freed while a message still names it
(`FreedIsUnused`), and whoever is then in the queue of the recycled block is lost
(`ThreadsRemembered`).  A receiver that leaves messages behind makes the next channel in that
memory show an event it does not have.  A thread that waits on a group while it can still be
sent to on its last channel is handed messages nobody takes (ClaimSnd), among them the last
word of a child.  A group's owner is resumed more than once, which the counters do not survive
(ClaimCounters).

None of these properties is inductive; the invariants that carry them are layered.

* `IndInv` (LwtProofs): `TypeOK`, `NobodyMisplaced`, `BlockedOwnersWait` and `ThreadsInv`.
  `__resume_thread(t)` puts `t` on the run queue and marks it runnable, which is wrong for a
  dead thread and for the current one.  A sender resumes the group's owner without looking at
  its state, so `blocked` must imply that the owner is inside `lwt_cgrp_wait`, and a thread
  inside an API function must not be dead.
* `GroupsInv` (LwtProofs): the list of a group that is not allocated is empty.  That is why
  the `list_head_init` of `lwt_cgrp` loses no channel; it needs `lwt_cgrp_free` to refuse a
  group with any channel in it.
* `ChansInv` (LwtInv): what a block that is free, a thread's own channel, a blocked sender, a
  sleeper, a receiver, a group's member and a waiting owner have in common with the fields
  that name them.  The heart is that a thread inside `lwt_rcv` is still the receiver of the
  channel `now_rcving` names, and that a free block belongs to nobody: then `lwt_chan`, which
  takes any free block, cannot turn an old name into a claim on a new channel.
* `RefsInv` (LwtInv): `snd_cnt` is at least the number of references clients hold, one by one
  (`Held` is a set of pairs, so that its cardinality is the count), a channel in flight is
  still there, and nobody waits in the queue of a free one.
* `EventsTrue` (LwtInv): a channel without a receiver is empty, and `ready` means a message,
  *also in blocks that are not in use*, because `__init_chan` does not reset it.
* `JoinsInv` (LwtInv): a thread that waits on a group is not `Addressed`; a thread that has been
  joined is on its way out or its parent sleeps on its channel until it is, and it leaves only
  then.  Both directions are needed: `lwt_die` hands the last word to whoever sleeps there,
  and otherwise blocks as a sender, and the join takes it from either place.
* `CountersInv` (LwtStepProofs): as `CountersExact`, split by what each scheduler operation
  changes, and that no group is ever blocked.

The refinement is by one lemma for each call: creation and `lwt_chan_deref` open and close an empty
queue, `lwt_snd` in each of its four cases appends to `Pending(c)` (buffer, blocked senders, and
the message in a receiver's hands, in the order in which they will be received), `lwt_rcv` and
the end of `lwt_join` take the first, and everything else leaves `Pending` of every channel
alone.  `Pending` reads the message of a blocked sender out of `message_data`; that a thread is in
at most one sender queue, once (`NobodyMisplaced`), is what keeps it in place.

The argument has four modules.  `LwtSchedProofs`: what removing, adding, appending and emptying
do to a family of lists, elementwise, and what each operator of `LwtSched` does to the lists, to
who exists (`SameThreads`) and to the counters (`Counted`); GlobalChan's proofs use these too.
`LwtProofs`: one lemma per action of `Lwt`, most of them instances of `OwnStep`, a step in which
the current thread changes only its own place.  `LwtStepProofs`: for each action a *shape*, a
formula without `EXCEPT` and without the order of the run queue that says which fields of which
threads and channels change and who is woken; the later invariants are proved from shapes,
conjunct by conjunct.  `LwtChanProofs`: the invariants that have hypotheses, and the refinement.

The parts of `LwtInv` hold in all states of the instances MCLwtThreads, MCLwtChannels and
MCLwtGroups (with `LwtInv` for `LwtProps` in `MCLwt`).  They are not properties of a run: the
proofs say of each that it always holds (`BaseInvHolds`, `RefsInvHolds`,
`EventsTrueHolds`, `JoinsInvHolds`).

### The other parts

`SlProofs` proves `OneInSection` (`MutualExclusion`), `NoAssertionFails` (`AssertionsHold`),
`TokensProtect` (`BlockedStayOut`) and `CurrentIsCurrent` (`KthdCurrent`) for any number of
kernel threads and any `MaxAhead`.  One invariant carries them: the lock word names the
thread in the section (`LockInv`); a token that would still be accepted belongs to the running
thread, or to the one the scheduler thread has just interrupted (`TokenInv`), so that under an
accepted token of the schedule function the choice is still what `current_kthd` says and can
still run; and whoever runs outside such a choice, or is lent the processor as the owner
of the lock, is current and can run (`RunningInv`).  Without the part on the owner it is not
inductive: the scheduler thread lends the processor by another road than its choice.
`WakeupsArrive` (`NoLostWakeup`) has the hypothesis `MaxAhead <= 1`, one wakeup for each block;
with two it is false (ClaimWoken).  Its invariant `WakeInv` says that at most one wakeup of a thread
is under way, none while it has one to use, and that it is then in `SL_THD_WOKEN`.

`GlobalChanProofs` proves `RingWhole` (`RingKeepsMessages`), `NoWrapLost`
(`EveryMessageAnnounced`) and `LocksHeld` (`LocksHaveHolders`) for any number of senders, any size and either order of the two
stores.  The invariant says who may be inside each lock, what the ring holds between the two
stores (all but the message about to be overwritten, `Kept(1)`), and that a sender about to
link has seen the whole queue.  Numbers less than `Size` apart have different places
(`PlacesDiffer`).  `NobodySleepsWith` (`SleepsAlone`) is about the receiver's kernel thread: its
lists are sound and complete under every operation of the scheduler, and the main thread does
not come to `sl_thd_block` but with itself alone in the run queue (`HomeInv`).

`UmallocProofs` proves, for any page size, number of pages and requests up to any `MaxBytes`,
`ManagedInsidePages` (`InsideUntilExhausted`: the number of pages is rounded up),
`UnitsKept` (`NothingLost`), `FreeMerged`
(`Coalesced`) and `ListImplementsHeap` (`ImplementsHeap`).  The last three are about what
searches along `ptr` from `freep` meet, and the invariant `HeapInv` does not mention a search:
each free block's `ptr` is the next higher free block, the highest one's the lowest (`Ring`);
there is room between a block and the next; `freep` is one of them; held blocks share no unit
with each other or with a free one, and together they are `core`.  That a search follows the
whole list is a consequence, drawn once (`WalkMeetsAll`): a search longer than the list meets a node
twice, the nodes in between lead only to each other, and in a ring such a set is everything
(`ClosedIsAll`).  So the search of `ufree` stops, at the block behind which the freed one belongs
(`StopsBehind`), also when that is the highest one and `ptr` wraps around.  The two merges are
then taken apart: entering the block (`EnteredRing`), joining it with its upper neighbour and
joining the lower with it (`JoinedRing`); in between two blocks touch, so the ring carries the
set of blocks for which that is allowed.

`LwtLinksProofs` proves, for any number of heads and nodes, `ListsStayWhole` (`n` and `p` are
inverse to each other in every reachable state) and `LinksAreLists` (`LinksImplementLists`): the
walks change as the operators of `LwtList` say.  The second rests on `Linked(n, q)`, the links
of a family of lists `q` cell by cell, head included, again without a walk.
Entering a node at a place and taking one out preserve it (`EnterKeepsLinked`,
`LeaveKeepsLinked`); `list_head_append` enters in front of the last because `p` of the head is the
last cell (`CellBefore`, from the first theorem); and what a walk meets when `Linked` holds is `q`
(`WalkIsList`).

In both, what would be an induction on the length of a walk is an argument at the smallest number
of steps for which it fails (`SmallestOf`): the provers cannot be given an induction rule, which
takes an operator as a parameter, but they can be given the fact that every set of numbers has a
smallest element.

### Only model-checked

* `Reset` and `AssertsHold` are about the scripts of `MCLwtProgram`, not about every client.
* `Terminates` and `SectionLeft` are liveness.

## 5. Where code and comments disagree

Four are runs that TLC must refute:

* **ClaimSnd** a thread that blocked in `lwt_rcv(c)` earlier and now waits on a group still
  has `now_rcving = c`: a sender on `c` hands it the message, which is dropped.
* **ClaimCounters** two sends before the group's owner runs resume it twice; the counters
  go negative.
* **ClaimWoken** `assert(t->state = SL_THD_BLOCKED)` (`sl.c:96`) assigns.  A second wakeup
  before the block finds `SL_THD_WOKEN`, makes it `SL_THD_RUNNABLE` and queues the thread
  again; the block that follows has forgotten both wakeups.
* **ClaimGlobalRcv** a receiver that blocks on a global channel is never resumed: its wrap goes
  to `wakeup_queue`, which is read only under `polling_flag`, which is only ever 0.
  `lwt1_test` of `unit_schedlib.c` hangs unless the message arrives before it looks.

The following were seen while modelling and have no run:

* `morecore` looks at the result of the first `cos_page_bump_alloc` only (`umalloc.c:54-62`): when the
  pages run out within a request, the block handed out reaches beyond the last.  The model does
  the same, so `InsidePages` by itself is false of it, and `InsideUntilExhausted` is checked.
* `data_buffer[tail++ % size] = data` of `lwt_sync_snd` are two stores in an order the compiler
  chooses, and the receiver takes no lock (`lwt_chl.c:165`, `275`): in `GlobalChan` as in the code
  it may take what the slot held before.
* `lwt_yield(t)` with three threads in the run queue runs the caller again: the caller is not
  moved and `t` goes in front of the last (`lwt.c:233`), against the comment at `lwt.c:218`.
* `lwt_join` returns while the child may still be alive (comment at `lwt.c:251`).
* A channel sent through a channel can be freed before it is received (`lwt_chl.c:74`): a
  channel in flight counts as no reference.
* A channel in recycled memory may show an event though it is empty (`lwt_chl.c:23`), and
  its `rb_occupied` is whatever the block held.
* An owner that leaves the critical section and sees contention does not always "switch to
  the scheduler thread" (`sl.h:128`): when it was preempted after `cos_sched_sync` its token is
  out of date, `sl_cs_exit_contention` ignores the refusal, and the waiter waits for its tick.
* `lwt_sync_snd` overwrites when the ring is full; the idle loop of the trampoline never
  yields while others are runnable (`lwt_chl.c:455`); neither the blocks of wraps nor
  `data_buffer` are freed.

The client discipline of the other runs excludes the stale hand-off, the freed channel in flight
and the stale event by the rules `wait_after_rcv`, `deref_in_flight` and `leave_data`; the
others can happen in every run and contradict no property those runs check.

One more consequence of resuming *before the last* thread is worth knowing, though no
comment contradicts it: two threads that keep answering each other on synchronous
channels stay in front of a third that has yielded, and it never runs again.  That is
why `Terminates` is about scripts and not about every client.

## 6. Not modelled

* `lwt_snd_thd` and `lwt_rcv_thd`: the latter unlinks a thread from another kernel thread's
  run queue without a lock; any preemption breaks the list, so no property is left.  No
  program calls them.
* The polling branch of `__lwt_schedule`: unreachable, `polling_flag` is never set.
* `sl_thd_free`, `sl_thd_comp_alloc`, timeouts, interrupt threads, the policy and the kernel.
* Overlapping calls of `umalloc` and `ufree` from two kernel threads: they take no lock.
* The width of the ring's `head` and `tail`, which wrap after 2^31 messages.
* `test_yields`, `printc` and the scripts.

## 7. Plan

1. *Sl* with timeouts and events of interrupt threads.
2. *Ring*: `head`, `tail` and their width, as a refinement of the sequence used in `Lwt`.
3. More programs: `LWT_NOJOIN`, receivers that leave blocked senders behind.
