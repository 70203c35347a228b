---------------------------- MODULE MCLwtProgram ----------------------------
(***************************************************************************)
(* Programs for LwtProgram, after the tests of main3.c.                    *)
(***************************************************************************)
EXTENDS LwtProgram

CONSTANTS d1, d2

ProgramOps == {"lwt_create", "lwt_create_chan", "lwt_join", "lwt_die", "lwt_yield",
               "lwt_chan", "lwt_chan_deref", "lwt_snd", "lwt_rcv", "lwt_snd_chan",
               "lwt_rcv_chan", "lwt_cgrp",
               "lwt_cgrp_add", "lwt_cgrp_rem", "lwt_cgrp_wait", "lwt_cgrp_free"}

create(n) == [op |-> "lwt_create", name |-> n]
create_chan(n, c) == [op |-> "lwt_create_chan", name |-> n, chan |-> c]
join(n) == [op |-> "lwt_join", name |-> n]
die(v) == [op |-> "lwt_die", value |-> v]
yield == [op |-> "lwt_yield"]
channel(n) == [op |-> "lwt_chan", name |-> n]
snd(c, v) == [op |-> "lwt_snd", chan |-> c, value |-> v]
rcv(c) == [op |-> "lwt_rcv", chan |-> c]
deref(c) == [op |-> "lwt_chan_deref", chan |-> c]
group(n) == [op |-> "lwt_cgrp", name |-> n]
OfGroup(f, g, c) == [op |-> f, group |-> g, chan |-> c]
free(g) == [op |-> "lwt_cgrp_free", group |-> g]
yield_to(n) == [op |-> "lwt_yield", name |-> n]
snd_chan(c, n) == [op |-> "lwt_snd_chan", chan |-> c, name |-> n]
rcv_chan(c) == [op |-> "lwt_rcv_chan", chan |-> c]
mark_set(c, v) == [op |-> "lwt_chan_mark_set", chan |-> c, value |-> v]

\* Asserts, with what they are about; exact: only without extra yields.
assert(that, v) == [op |-> "assert", that |-> that, value |-> v, exact |-> FALSE]
assert_exact(that, v) == [op |-> "assert", that |-> that, value |-> v, exact |-> TRUE]
assert_chan(that, c) == [op |-> "assert", that |-> that, chan |-> c, exact |-> FALSE]
assert_group(that, g) == [op |-> "assert", that |-> that, group |-> g, exact |-> FALSE]
assert_chan_exact(that, c) == [assert_chan(that, c) EXCEPT !.exact = TRUE]
IS_RESET == assert("reset", TRUE)

\* test_perf: fork and join, then two threads that only yield.
Perf == [main |-> << create("N"), join("N"), IS_RESET,
                     create("A"), create("B"), join("A"), join("B"), IS_RESET >>,
         N |-> << die(d1) >>,
         A |-> << yield, yield, die(d1) >>,
         B |-> << yield, yield, die(d1) >>]

\* test_crt_join_sched, scheduling: fn_sequence.
InTurn(v) == << [op |-> "sequence", value |-> v], assert_exact("alternates", v), yield >>
Sequence == [main |-> << yield, create("A"), create("B"), join("B"), join("A"), IS_RESET >>,
             A |-> InTurn(1) \o InTurn(1) \o << die(d1) >>,
             B |-> InTurn(2) \o InTurn(2) \o << die(d1) >>]

\* test_crt_join_sched, join: a child that is dead already, and nested joins.
Joins == [main |-> << create("A"), yield, join("A"), IS_RESET,
                      create("N"), join("N"), IS_RESET >>,
          A |-> << die(d1) >>,
          N |-> << create("M"), join("M"), die(d1) >>,
          M |-> << yield, yield, assert_exact("runnable", 1), die(d1) >>]

\* ... only the parent's join is answered; data and directed yield.
Parents == [main |-> << create("A"), create("B"), yield, yield,
                        join("B"), assert("returned", d1),
                        join("A"), assert("returned", d2), IS_RESET,
                        create("N"), yield_to("N"), assert_exact("zombies", 1),
                        join("N"), IS_RESET >>,
            A |-> << die(d2) >>,
            B |-> << join("A"), assert("not_returned", d2), die(d1) >>,
            N |-> << die(d1) >>]

\* test_perf_channels: a channel is passed and two threads answer each other.
Serve == << rcv("c"), assert("returned", d1), snd("d", d2) >>
Ask == << snd("c", d1), rcv("d"), assert("returned", d2) >>
PingPong == [main |-> << channel("c"), create_chan("A", "c"), rcv_chan("c"),
                         assert_chan("has_sender", "d") >>
                      \o Serve \o Serve \o << deref("d"), join("A") >>,
             A |-> << channel("d"), snd_chan("c", "d"), assert_chan_exact("has_sender", "d") >>
                   \o Ask \o Ask \o << deref("d"), die(d1) >>]

\* test_perf_async_steam: the sender drops the channel when it has sent all.
Steam == [main |-> << assert("running", TRUE), channel("c"), create_chan("A", "c"),
                      assert_exact("runnable", 2),
                      rcv("c"), assert("returned", d1), rcv("c"), assert("returned", d2),
                      rcv("c"), assert("returned", d1), join("A") >>,
          A |-> << snd("c", d1), snd("c", d2), snd("c", d1), deref("c"), die(d1) >>]

\* test_multisend: two senders, one receiver, asynchronous up to the size.
Sends(v) == << snd("c", v), [op |-> "sent"] >>
Receives == << rcv("c"), [op |-> "received"] >>
Multisend ==
  [main |-> << channel("c"), create_chan("A", "c"), create_chan("B", "c") >>
            \o Receives \o Receives \o Receives \o Receives
            \o << join("A"), join("B"), assert("summed", 2), assert_chan_exact("filled", "c"),
                  IS_RESET >>,
   A |-> Sends(d1) \o Sends(d1) \o << die(d1) >>,
   B |-> Sends(d2) \o Sends(d2) \o << die(d1) >>]

\* test_grpwait: a group of two channels, one sender each, whose messages are
\* the marks.  The first lwt_cgrp_free fails, the last one frees the group.
WaitAndRcv(g) ==
  << [op |-> "lwt_cgrp_wait", group |-> g], assert("has_event", TRUE), yield,
     [op |-> "lwt_rcv_event"], assert("marked", NULL) >>
Grpwait ==
  [main |-> << group("g"),
               channel("c"), create_chan("A", "c"), mark_set("c", d1),
               OfGroup("lwt_cgrp_add", "g", "c"),
               channel("d"), create_chan("B", "d"), mark_set("d", d2),
               OfGroup("lwt_cgrp_add", "g", "d"),
               yield, free("g"), assert_group("not_freed", "g") >>
            \o WaitAndRcv("g") \o WaitAndRcv("g") \o WaitAndRcv("g") \o WaitAndRcv("g")
            \o << OfGroup("lwt_cgrp_rem", "g", "c"), join("A"), deref("c"),
                  OfGroup("lwt_cgrp_rem", "g", "d"), join("B"), deref("d"), free("g"),
                  assert_group("freed", "g") >>,
   A |-> << yield, yield, snd("c", d1), snd("c", d1), die(d1) >>,
   B |-> << yield, yield, snd("d", d2), snd("d", d2), die(d1) >>]

Programs == [test_perf |-> Perf,
             fn_sequence |-> Sequence,
             fn_nested_joins |-> Joins,
             fn_join |-> Parents,
             test_perf_channels |-> PingPong,
             test_perf_async_steam |-> Steam,
             test_multisend |-> Multisend,
             test_grpwait |-> Grpwait]
ProgramNames == {"main", "A", "B", "N", "M", "c", "d", "g"}
=============================================================================
