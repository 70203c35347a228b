----------------------------- MODULE LwtProgram -----------------------------
(***************************************************************************)
(* Programs over Lwt: the threads of a program run scripts, sequences of   *)
(* calls, as the functions of main3.c do.  A thread's script is named by   *)
(* its role; handles (threads, channels, groups) have names, bound when    *)
(* they are made.  Besides its calls a program may yield between any two,  *)
(* at most MaxYields times in all, so that a run covers many schedules of  *)
(* it.  An assert of the test and an access to its global variables are    *)
(* entries of a script too; they belong to the call before them.           *)
(***************************************************************************)
EXTENDS LwtProps

CONSTANTS Names,     \* handles of the programs; a role names its thread
          Script,    \* Script[p][r]: the calls of role r of program p, records with field op
          MaxYields  \* bound: yields beyond those in the scripts

VARIABLES program,  \* the program that runs, one of DOMAIN Script
          at,     \* at[t]: next call of thread t
          role,   \* role[t]: script thread t runs
          env,    \* env[n]: what name n stands for
          result, \* result[t]: what the last receive or join of t returned
          mark,   \* mark[c]: lwt_channel->mark
          shared, \* the global variables of main3.c and the counts of its tests
          yields  \* yields done so far

programVars == << vars, program, at, role, env, result, mark, shared, yields >>

ProgramInit ==
  /\ Init
  /\ program \in DOMAIN Script
  /\ at = [t \in Threads |-> 1]
  /\ role = [t \in Threads |-> "main"]
  /\ env = [n \in Names |-> NULL]
  /\ result = [t \in Threads |-> NULL]
  /\ mark = [c \in Chans |-> NULL]
  /\ shared = [curr |-> 0, sched |-> [i \in 0 .. 1 |-> 0],
               sndrcv_cnt |-> 0, maxcnt |-> 0, ret |-> [v \in Data |-> 0]]
  /\ yields = 0

Calls(t) == Script[program][role[t]]
Finished(t) == at[t] > Len(Calls(t))
call == Calls(me)[at[me]]

\* Which block umalloc returns does not matter to a program: any fixed one.
FreshChan == CHOOSE c \in Chans : ~chan[c].live
FreshThread == CHOOSE t \in Threads : Allocates(t)

Bind(handle) ==
  /\ env' = [env EXCEPT ![call.name] = handle]
  /\ UNCHANGED role
Advance == at' = [at EXCEPT ![me] = @ + 1]

\* A call that makes a thread: its script starts at 1.
Starts(t) ==
  /\ env' = [env EXCEPT ![call.name] = t]
  /\ role' = [role EXCEPT ![t] = call.name]
  /\ at' = [at EXCEPT ![me] = @ + 1, ![t] = 1]

MakeCall ==
  \/ call.op = "lwt_create" /\ lwt_create(FreshThread, FreshChan, FALSE) /\ Starts(FreshThread)
  \/ call.op = "lwt_create_chan" /\ Starts(FreshThread)
       /\ lwt_create_chan(FreshThread, FreshChan, env[call.chan])
  \/ call.op = "lwt_chan" /\ (\E size \in Sizes : lwt_chan(FreshChan, size))
       /\ Bind(FreshChan) /\ Advance
  \/ call.op = "lwt_cgrp" /\ (\E g \in Groups : lwt_cgrp(g) /\ Bind(g)) /\ Advance
  \/ /\ \/ call.op = "lwt_join" /\ lwt_join(env[call.name])
        \/ call.op = "lwt_die" /\ lwt_die(call.value)
        \/ call.op = "lwt_yield" /\ lwt_yield(IF "name" \in DOMAIN call THEN env[call.name]
                                                                       ELSE NULL)
        \/ call.op = "lwt_snd" /\ lwt_snd(env[call.chan], call.value)
        \/ call.op = "lwt_snd_chan" /\ lwt_snd_chan(env[call.chan], env[call.name])
        \/ call.op = "lwt_rcv_chan" /\ lwt_rcv_chan(env[call.chan])
        \/ call.op = "lwt_rcv" /\ lwt_rcv(env[call.chan])
        \/ call.op = "lwt_rcv_event" /\ lwt_rcv(event[me])
        \/ call.op = "lwt_chan_deref" /\ lwt_chan_deref(env[call.chan])
        \/ call.op = "lwt_cgrp_add" /\ lwt_cgrp_add(env[call.group], env[call.chan])
        \/ call.op = "lwt_cgrp_rem" /\ lwt_cgrp_rem(env[call.group], env[call.chan])
        \/ call.op = "lwt_cgrp_wait" /\ lwt_cgrp_wait(env[call.group])
        \/ call.op = "lwt_cgrp_free" /\ lwt_cgrp_free(env[call.group])
     /\ Advance
     /\ UNCHANGED << role, env >>

\* A receive or a join that returns gives its value to the current thread.
Returned == result' = IF delivered' = delivered
                        THEN result ELSE [result EXCEPT ![me] = delivered'[2]]

AtCall == me # NULL /\ pc[me] = "client" /\ ~Finished(me)

ClientStep ==
  /\ AtCall
  /\ MakeCall
  /\ Returned
  /\ UNCHANGED << mark, shared, yields >>

\* lwt_chan_mark_set stores what lwt_chan_mark_get returns.
MarkSet ==
  /\ AtCall /\ call.op = "lwt_chan_mark_set"
  /\ mark' = [mark EXCEPT ![env[call.chan]] = call.value]
  /\ Advance
  /\ UNCHANGED << vars, role, env, result, shared, yields >>

-----------------------------------------------------------------------------
(* What the tests do with their global variables, and assert.               *)

\* fn_sequence: the thread writes its number into the next of two places.
Sequenced(g, val) ==
  LET curr == (g.curr + 1) % 2 IN [g EXCEPT !.curr = curr, !.sched[curr] = val]

\* fn_snder after lwt_snd, and test_multisend after lwt_rcv.
Sent(g) == [g EXCEPT !.sndrcv_cnt = @ + 1]
Received(g, v) ==
  [g EXCEPT !.maxcnt = IF g.sndrcv_cnt > @ THEN g.sndrcv_cnt ELSE @,
            !.sndrcv_cnt = @ - 1, !.ret[v] = @ + 1]

Bookkeeping == {"sequence", "sent", "received"}

Access ==
  /\ AtCall /\ call.op \in Bookkeeping
  /\ shared' = CASE call.op = "sequence" -> Sequenced(shared, call.value)
                 [] call.op = "sent" -> Sent(shared)
                 [] call.op = "received" -> Received(shared, result[me])
  /\ Advance
  /\ UNCHANGED << vars, role, env, result, mark, yields >>

IsReset ==
  /\ Len(sched.queue["run_queue"]) = 1
  /\ sched.zombie_counter = 0
  /\ sched.block_counter = 0

\* The condition an assert evaluates.
Holds(a) ==
  CASE a.that = "reset" -> IsReset
    [] a.that = "runnable" -> Len(sched.queue["run_queue"]) = a.value
    [] a.that = "zombies" -> sched.zombie_counter = a.value
    [] a.that = "running" -> sched.state[me] = "LWT_RUNNING"
    [] a.that = "returned" -> result[me] = a.value
    [] a.that = "not_returned" -> result[me] # a.value
    [] a.that = "alternates" -> shared.sched[1 - shared.curr] # a.value
    [] a.that = "has_sender" -> chan[env[a.chan]].snd_cnt > 0
    [] a.that = "marked" -> result[me] = mark[delivered[1]]
    [] a.that = "filled" -> shared.maxcnt >= chan[env[a.chan]].size
    [] a.that = "has_event" -> event[me] # NULL
    [] a.that = "not_freed" -> grp[env[a.group]].live
    [] a.that = "freed" -> ~grp[env[a.group]].live
    [] a.that = "summed" -> \A v \in Data : shared.ret[v] = a.value

\* An assert that holds lets the thread go on.
PassesAssert ==
  /\ AtCall /\ call.op = "assert"
  /\ Advance
  /\ UNCHANGED << vars, role, env, result, mark, shared, yields >>

ExtraYield ==
  /\ yields < MaxYields
  /\ AtCall /\ call.op \notin Bookkeeping \cup {"assert"}
  /\ lwt_yield(NULL)
  /\ yields' = yields + 1
  /\ UNCHANGED << at, role, env, result, mark, shared >>

LibraryStep ==
  /\ SndResumes \/ RcvResumes \/ JoinReturns \/ WaitResumes
  /\ Returned
  /\ UNCHANGED << at, role, env, mark, shared, yields >>

\* The main thread has made its last call.
MainDone == me = MainThread /\ pc[me] = "client" /\ Finished(me)

\* The end: all calls made, or the processor lost to an empty run queue.
Stop == (me # NULL => MainDone) /\ UNCHANGED programVars

ProgramNext ==
  \/ /\ ClientStep \/ MarkSet \/ Access \/ PassesAssert \/ ExtraYield \/ LibraryStep
     /\ UNCHANGED program
  \/ Stop

\* The processor always executes the current thread.
ProgramSpec == ProgramInit /\ [][ProgramNext]_programVars /\ WF_programVars(ProgramNext)

-----------------------------------------------------------------------------
\* The program ends: no call blocks for ever, no thread that the main thread
\* waits for is left out by the scheduler.
Terminates == <>MainDone

\* IS_RESET of main3.c, where the tests call it: one thread is left to run and
\* nobody is blocked or dying, however the yields were placed.
Reset ==
  AtCall /\ call.op = "assert" => (call.that = "reset" => IsReset)

\* The other asserts of the tests: what joins and receives return, the length
\* of the run queue, a child that dies before it is joined, a buffer that has
\* been full, a group that is freed only when it is empty.  Those that fix the
\* order in which threads run (exact) hold when there is no yield but the
\* test's own.
AssertsHold ==
  AtCall /\ call.op = "assert" =>
     \/ call.that = "reset"
     \/ call.exact /\ yields > 0
     \/ Holds(call)
=============================================================================
