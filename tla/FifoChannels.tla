---------------------------- MODULE FifoChannels ----------------------------
(***************************************************************************)
(* What the channels of the library promise: each is an unbounded first-   *)
(* in first-out queue.  A message is sent once and delivered at most once, *)
(* in the order of sending, on the channel it was sent on, whoever blocks, *)
(* is resumed or is handed a message in between.  Lwt implements this.     *)
(***************************************************************************)
EXTENDS Sequences

CONSTANTS Chans, Values, NULL

VARIABLES open,      \* open[c]: channel c is allocated
          queue,     \* queue[c]: messages sent on c and not received
          delivered  \* the channel and the value of the last receive

vars == << open, queue, delivered >>

Init ==
  /\ open = [c \in Chans |-> FALSE]
  /\ queue = [c \in Chans |-> << >>]
  /\ delivered = << NULL, NULL >>

Open(c) ==
  /\ ~open[c]
  /\ open' = [open EXCEPT ![c] = TRUE]
  /\ UNCHANGED << queue, delivered >>

\* What was not received is lost with the channel.
Close(c) ==
  /\ open[c]
  /\ open' = [open EXCEPT ![c] = FALSE]
  /\ queue' = [queue EXCEPT ![c] = << >>]
  /\ UNCHANGED delivered

Send(c, v) ==
  /\ open[c]
  /\ queue' = [queue EXCEPT ![c] = Append(@, v)]
  /\ UNCHANGED << open, delivered >>

Receive(c) ==
  /\ open[c] /\ queue[c] # << >>
  /\ delivered' = << c, Head(queue[c]) >>
  /\ queue' = [queue EXCEPT ![c] = Tail(@)]
  /\ UNCHANGED open

Next ==
  \E c \in Chans :
     Open(c) \/ Close(c) \/ Receive(c) \/ \E v \in Values : Send(c, v)

Spec == Init /\ [][Next]_vars
=============================================================================
