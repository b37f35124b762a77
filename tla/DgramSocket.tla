---------------------------- MODULE DgramSocket ----------------------------
(***************************************************************************)
(* dgram.Socket.  bind() and the first send() each spawn a task that binds *)
(* a UDP socket and then starts a receiver loop and a sender loop; send()  *)
(* spawns a task that waits on a latch for the binding to finish and puts  *)
(* its datagram into the channel of the sender loop; close() tells the     *)
(* loops over a broadcast channel.                                         *)
(*                                                                         *)
(* All of them run on the JavaScript thread, one task at a time, and only  *)
(* an await lets another one in.  The program has an "error" listener:     *)
(* without one any error event ends the process.                           *)
(***************************************************************************)
EXTENDS Naturals, Sequences, SequencesExt, FiniteSets, Latch

CONSTANTS
  MaxBinds,    \* bound: calls of start_listening
  MaxSends     \* bound: calls of send()

VARIABLES
  early,        \* what the program does while a binding is in progress:
                \* "start" bind or send, "close" the socket
  is_bound, is_closed, receiver_running,
  send_tx,      \* the binding whose sender loop gets the datagrams; 0: none
  local,        \* the binding whose address address() reports; 0: none
  ready_latch,
  binds,        \* the tasks of start_listening, with their two loops
  sends,        \* the tasks of send()
  exited        \* a task failed and the process is over

flags == <<is_bound, is_closed, receiver_running, send_tx, local>>
dgram == <<early, flags, ready_latch, binds, sends, exited>>

Binds == 1..MaxBinds
Sends == 1..MaxSends

\* A binding, its receiver loop and its sender loop; the close signals not yet
\* received by the loops; the datagrams in the channel of the sender loop.
BindTask ==
  [pc : {"none", "binding", "bound", "failed"},
   receiver : {"none", "running", "ended"},
   sender : {"none", "running", "ended"},
   receiver_close : BOOLEAN, sender_close : BOOLEAN, queue : Seq(Sends)]

\* A send: not called, spawned, waiting on the latch, in a channel; then sent
\* (or the callback has its error), reported by an error event, or dropped
\* with the channel, no callback being there to tell.
SendTask ==
  [pc : {"none", "spawned", "waiting", "queued", "answered", "errorEvent",
         "dropped"},
   callback : BOOLEAN]

Settled == {"answered", "errorEvent", "dropped"}

\* Socket::ctor.
DgramInit ==
  /\ early \in SUBSET {"start", "close"}
  /\ is_bound = FALSE
  /\ is_closed = FALSE
  /\ receiver_running = FALSE
  /\ send_tx = 0
  /\ local = 0
  /\ ready_latch = Default
  /\ binds = [b \in Binds |->
                [pc |-> "none", receiver |-> "none", sender |-> "none",
                 receiver_close |-> FALSE, sender_close |-> FALSE,
                 queue |-> <<>>]]
  /\ sends = [s \in Sends |-> [pc |-> "none", callback |-> FALSE]]
  /\ exited = FALSE

Binding == {b \in Binds : binds[b].pc = "binding"}
Continues == ~exited /\ UNCHANGED <<early, exited>>

\* Tasks are numbered in the order of the calls.
NextBind(b) == b = 1 + Cardinality({c \in Binds : binds[c].pc # "none"})
NextSend(s) == s = 1 + Cardinality({t \in Sends : sends[t].pc # "none"})

\* The calls the program makes at this point.
May(call) == Binding = {} \/ call \in early

---------------------------------------------------------------------------
(* The program's calls *)

\* start_listening, past its checks: the latch goes up and the task starts.
start_listening(b) ==
  /\ NextBind(b)
  /\ binds' = [binds EXCEPT ![b].pc = "binding"]
  /\ ready_latch' = increment(ready_latch)

\* bind(): throws, and changes nothing, on a bound or closed socket.
Bind(b) ==
  /\ Continues
  /\ May("start")
  /\ ~is_bound
  /\ ~is_closed
  /\ start_listening(b)
  /\ UNCHANGED <<flags, sends>>

\* A socket that is not bound is bound to any port.
ensure_listening(b) ==
  IF is_bound
    THEN UNCHANGED <<binds, ready_latch>>
    ELSE May("start") /\ start_listening(b)

\* send(): throws on a closed socket.
Send(s, b, callback) ==
  /\ Continues
  /\ NextSend(s)
  /\ ~is_closed
  /\ ensure_listening(b)
  /\ sends' = [sends EXCEPT ![s] = [pc |-> "spawned", callback |-> callback]]
  /\ UNCHANGED flags

\* close(): signals the loops that have subscribed by now, drops the sender of
\* the channel, and has "close" emitted.  A second close() throws.
CloseDgram ==
  /\ Continues
  /\ May("close")
  /\ ~is_closed
  /\ is_closed' = TRUE
  /\ send_tx' = 0
  /\ binds' = [b \in Binds |->
                 [binds[b] EXCEPT !.receiver_close = binds[b].pc = "bound",
                                  !.sender_close = binds[b].pc = "bound"]]
  /\ UNCHANGED <<is_bound, receiver_running, local, ready_latch, sends>>

---------------------------------------------------------------------------
(* The task of start_listening *)

\* The socket is bound: it becomes the one of the object, the latch goes down,
\* "listening" is emitted, and the loops start, the receiver only if there is
\* none.
BindingSucceeds(b) ==
  /\ Continues
  /\ binds[b].pc = "binding"
  /\ is_bound' = TRUE
  /\ local' = b
  /\ send_tx' = b
  /\ ready_latch' = decrement(ready_latch)
  /\ receiver_running' = TRUE
  /\ binds' = [binds EXCEPT
                 ![b].pc = "bound",
                 ![b].sender = "running",
                 ![b].receiver = IF receiver_running THEN @ ELSE "running"]
  /\ UNCHANGED <<is_closed, sends>>

\* Binding fails: the latch goes down and an error event is emitted.
BindingFails(b) ==
  /\ Continues
  /\ binds[b].pc = "binding"
  /\ binds' = [binds EXCEPT ![b].pc = "failed"]
  /\ ready_latch' = decrement(ready_latch)
  /\ UNCHANGED <<flags, sends>>

\* The receiver loop gets the close signal.  Until then it emits "message" for
\* every datagram, which changes nothing here.
ReceiverEnds(b) ==
  /\ Continues
  /\ binds[b].receiver = "running"
  /\ binds[b].receiver_close
  /\ binds' = [binds EXCEPT ![b].receiver = "ended"]
  /\ receiver_running' = FALSE
  /\ UNCHANGED <<is_bound, is_closed, send_tx, local, ready_latch, sends>>

\* Receiving fails: the loop ends, and on an open socket leaves
\* receiver_running set and an error event behind.
ReceiverFails(b) ==
  /\ Continues
  /\ binds[b].receiver = "running"
  /\ binds' = [binds EXCEPT ![b].receiver = "ended"]
  /\ receiver_running' = ~is_closed
  /\ UNCHANGED <<is_bound, is_closed, send_tx, local, ready_latch, sends>>

\* The sender loop takes a datagram and sends it.
SenderSends(b) ==
  /\ Continues
  /\ binds[b].sender = "running"
  /\ binds[b].queue # <<>>
  /\ binds' = [binds EXCEPT ![b].queue = Tail(@)]
  /\ sends' = [sends EXCEPT ![Head(binds[b].queue)].pc = "answered"]
  /\ UNCHANGED <<flags, ready_latch>>

\* The same when sending fails: the callback gets the error; without one the
\* task itself fails, which ends the process.
SenderFails(b) ==
  /\ ~exited
  /\ binds[b].sender = "running"
  /\ binds[b].queue # <<>>
  /\ LET s == Head(binds[b].queue)
     IN  IF sends[s].callback
           THEN /\ binds' = [binds EXCEPT ![b].queue = Tail(@)]
                /\ sends' = [sends EXCEPT ![s].pc = "answered"]
                /\ exited' = FALSE
           ELSE exited' = TRUE /\ UNCHANGED <<binds, sends>>
  /\ UNCHANGED <<early, flags, ready_latch>>

\* The sender loop ends, on the close signal or because its channel is empty
\* and has no sender.  The datagrams left in the channel are dropped: their
\* callbacks are told that the socket was closed.
SenderEnds(b) ==
  /\ Continues
  /\ binds[b].sender = "running"
  /\ binds[b].sender_close \/ (binds[b].queue = <<>> /\ send_tx # b)
  /\ binds' = [binds EXCEPT ![b].sender = "ended", ![b].queue = <<>>]
  /\ sends' = [s \in Sends |->
                 IF s \in ToSet(binds[b].queue)
                   THEN [sends[s] EXCEPT !.pc = IF sends[s].callback
                                                  THEN "answered"
                                                  ELSE "dropped"]
                   ELSE sends[s]]
  /\ UNCHANGED <<flags, ready_latch>>

---------------------------------------------------------------------------
(* The task of send() *)

\* Past the latch: into the channel, or an error event when there is none or
\* its receiving end is gone.
Enqueue(s) ==
  IF send_tx = 0 \/ (send_tx # 0 /\ binds[send_tx].sender = "ended")
    THEN /\ sends' = [sends EXCEPT ![s].pc = "errorEvent"]
         /\ UNCHANGED binds
    ELSE /\ sends' = [sends EXCEPT ![s].pc = "queued"]
         /\ binds' = [binds EXCEPT ![send_tx].queue = Append(@, s)]

SendStartsFault(s) ==
  /\ Continues
  /\ sends[s].pc = "spawned"
  /\ Enqueue(s)
  /\ UNCHANGED <<flags, ready_latch>>

\* The task's first step: on through the latch, or wait.
SendStarts(s) ==
  /\ Continues
  /\ sends[s].pc = "spawned"
  /\ ready_latch' = wait(ready_latch, s)
  /\ IF MustWait(ready_latch)
       THEN sends' = [sends EXCEPT ![s].pc = "waiting"] /\ UNCHANGED binds
       ELSE Enqueue(s)
  /\ UNCHANGED flags

SendWakes(s) ==
  /\ Continues
  /\ sends[s].pc = "waiting"
  /\ Released(ready_latch, s)
  /\ Enqueue(s)
  /\ UNCHANGED <<flags, ready_latch>>

---------------------------------------------------------------------------

Calls ==
  \/ \E b \in Binds : Bind(b)
  \/ \E s \in Sends, b \in Binds, callback \in BOOLEAN : Send(s, b, callback)
  \/ CloseDgram

BindSteps(b) == BindingSucceeds(b) \/ BindingFails(b)
SenderSteps(b) == SenderSends(b) \/ SenderEnds(b)
SendSteps(s) == SendStarts(s) \/ SendWakes(s)

DgramNext ==
  \/ Calls
  \/ \E b \in Binds :
       \/ BindSteps(b)
       \/ ReceiverEnds(b)
       \/ ReceiverFails(b)
       \/ SenderSteps(b)
       \/ SenderFails(b)
  \/ \E s \in Sends : SendSteps(s)

DgramSpec == DgramInit /\ [][DgramNext]_dgram

\* A task that has been woken runs, and binding and sending come to an end;
\* nothing makes the program call anything.
DgramOwed ==
  \/ \E b \in Binds : BindSteps(b) \/ ReceiverEnds(b) \/ SenderSteps(b)
  \/ \E s \in Sends : SendSteps(s)

DgramFairSpec == DgramSpec /\ WF_dgram(DgramOwed)

---------------------------------------------------------------------------
(* Properties *)

DgramTypeOK ==
  /\ early \subseteq {"start", "close"}
  /\ is_bound \in BOOLEAN
  /\ is_closed \in BOOLEAN
  /\ receiver_running \in BOOLEAN
  /\ send_tx \in 0..MaxBinds
  /\ local \in 0..MaxBinds
  /\ ready_latch \in [count : 0..MaxBinds, waiters : SUBSET Sends]
  /\ binds \in [Binds -> BindTask]
  /\ sends \in [Sends -> SendTask]
  /\ exited \in BOOLEAN

\* The latch stands for the bindings in progress: a send that sleeps on it has
\* one that will wake it, and one that it lets through finds a channel, unless
\* a binding has failed or the socket is closed.
LatchGuardsChannel ==
  /\ DgramTypeOK
  /\ \A s \in ready_latch.waiters : sends[s].pc = "waiting" /\ Binding # {}
  /\ (\E s \in Sends : sends[s].pc = "errorEvent") =>
       is_closed \/ \E b \in Binds : binds[b].pc = "failed"

\* The socket receives on the address it reports: the binding behind
\* address(), whose "listening" has been emitted, is the one that has got the
\* receiver loop, if the program lets one binding end before it starts another.
ReceivesOnItsAddress ==
  "start" \notin early /\ is_bound /\ ~is_closed => binds[local].receiver # "none"

\* A send waits on the latch only for a binding, one that is let through finds
\* the channel, and the socket receives where it says it does.
DgramIsReady == LatchGuardsChannel /\ ReceivesOnItsAddress

NoSendWaits ==
  exited \/ \A s \in Sends : sends[s].pc \in {"none"} \cup Settled
LoopsEnded ==
  \/ "close" \in early \/ ~is_closed \/ exited
  \/ \A b \in Binds : "running" \notin {binds[b].receiver, binds[b].sender}

\* Every send comes to an end: sent, told of its error, or dropped.  After
\* close() the loops end, the socket stops listening, if the program does not
\* close it while a binding is in progress.
SendsSettle == []<>(NoSendWaits /\ LoopsEnded)
=============================================================================
